---- MODULE Spec2Model ----
(***************************************************************************)
(* hash1: verification of the checksum matcher (cmd/verify.go) on top of   *)
(* the checksum engine (hashcs/hash.go).                                   *)
(*                                                                         *)
(* A Go string is a sequence of one-character strings; a nil slice and a   *)
(* nil error are the empty sequence and the record Nil.                    *)
(***************************************************************************)
EXTENDS Integers, Sequences, FiniteSets, TLC

(***************************************************************************)
(* Characters.  Ascii lists the printable ASCII characters in code order,  *)
(* (32..126), so that Code(c) is the rune value the Go code compares.  The *)
(* entry "GRAVE" holds the place of the grave accent (code 96).            *)
(***************************************************************************)
Ascii ==
    << " ", "!", "\"", "#", "$", "%", "&", "'", "(", ")", "*", "+", ",", "-", ".", "/",
       "0", "1", "2", "3", "4", "5", "6", "7", "8", "9", ":", ";", "<", "=", ">", "?",
       "@", "A", "B", "C", "D", "E", "F", "G", "H", "I", "J", "K", "L", "M", "N", "O",
       "P", "Q", "R", "S", "T", "U", "V", "W", "X", "Y", "Z", "[", "\\", "]", "^", "_",
       "GRAVE", "a", "b", "c", "d", "e", "f", "g", "h", "i", "j", "k", "l", "m", "n", "o",
       "p", "q", "r", "s", "t", "u", "v", "w", "x", "y", "z", "{", "|", "}", "~" >>

Chars == { Ascii[i] : i \in 1..Len(Ascii) }

CodeOf == [ c \in Chars |-> 31 + (CHOOSE i \in 1..Len(Ascii) : Ascii[i] = c) ]

Code(c) == CodeOf[c]

\* unicode.ToLower on one rune (ASCII range).
LowerChar(c) ==
    IF Code(c) >= Code("A") /\ Code(c) <= Code("Z")
    THEN Ascii[Code(c) + 32 - 31]
    ELSE c

\* unicode.ToUpper on one rune (ASCII range).
UpperChar(c) ==
    IF Code(c) >= Code("a") /\ Code(c) <= Code("z")
    THEN Ascii[Code(c) - 32 - 31]
    ELSE c

\* unicode.IsSpace restricted to the characters of Ascii.
IsSpace(c) == c = " "

(***************************************************************************)
(* The functions of package strings used by the program.                   *)
(***************************************************************************)
\* s[i:j] with Go's 0-based half-open indices.
Slice(s, i, j) == SubSeq(s, i + 1, j)

\* ToLower that maps only the letters A to F.
ToLowerHexDigits(s) ==
    [ i \in 1..Len(s) |-> IF Code(s[i]) <= Code("F") THEN LowerChar(s[i]) ELSE s[i] ]

ToLower(s) == [ i \in 1..Len(s) |-> LowerChar(s[i]) ]

\* ToUpper that maps only the first character.
ToUpperFirst(s) == [ i \in 1..Len(s) |-> IF i = 1 THEN UpperChar(s[i]) ELSE s[i] ]

ToUpper(s) == [ i \in 1..Len(s) |-> UpperChar(s[i]) ]

\* HasPrefix with a strict length test.
HasPrefixStrict(s, p) == Len(s) > Len(p) /\ Slice(s, 0, Len(p)) = p

HasPrefix(s, p) == Len(s) >= Len(p) /\ Slice(s, 0, Len(p)) = p

HasSuffix(s, x) == Len(s) >= Len(x) /\ Slice(s, Len(s) - Len(x), Len(s)) = x

TrimPrefix(s, p) == IF HasPrefix(s, p) THEN Slice(s, Len(p), Len(s)) ELSE s

\* strings.Index that finds the last occurrence of sep.
IndexLast(s, sep) ==
    LET hits == { i \in 0..(Len(s) - Len(sep)) : Slice(s, i, i + Len(sep)) = sep }
    IN  IF hits = {} THEN -1 ELSE CHOOSE i \in hits : \A j \in hits : i >= j

\* strings.Index: the 0-based index of the first occurrence of sep, or -1.
Index(s, sep) ==
    LET hits == { i \in 0..(Len(s) - Len(sep)) : Slice(s, i, i + Len(sep)) = sep }
    IN  IF hits = {} THEN -1 ELSE CHOOSE i \in hits : \A j \in hits : i <= j

\* Cut whose text after sep starts one character early.
CutAfterOffByOne(s, sep) ==
    LET i == Index(s, sep)
    IN  IF i >= 0
        THEN [before |-> Slice(s, 0, i), after |-> Slice(s, i + Len(sep) - 1, Len(s)), found |-> TRUE]
        ELSE [before |-> s, after |-> << >>, found |-> FALSE]

\* Cut that takes index 0 for "not found".
CutNeedsPositive(s, sep) ==
    LET i == Index(s, sep)
    IN  IF i > 0
        THEN [before |-> Slice(s, 0, i), after |-> Slice(s, i + Len(sep), Len(s)), found |-> TRUE]
        ELSE [before |-> s, after |-> << >>, found |-> FALSE]

\* strings.Cut: the text before and after the first occurrence of sep.
Cut(s, sep) ==
    LET i == Index(s, sep)
    IN  IF i >= 0
        THEN [before |-> Slice(s, 0, i), after |-> Slice(s, i + Len(sep), Len(s)), found |-> TRUE]
        ELSE [before |-> s, after |-> << >>, found |-> FALSE]

\* TrimSpace that leaves the trailing white space.
TrimSpaceLeading(s) ==
    LET keep == { i \in 1..Len(s) : ~IsSpace(s[i]) }
    IN  IF keep = {} THEN << >>
        ELSE SubSeq(s, CHOOSE i \in keep : \A j \in keep : i <= j, Len(s))

\* strings.TrimSpace: s without its leading and trailing white space.
TrimSpace(s) ==
    LET keep == { i \in 1..Len(s) : ~IsSpace(s[i]) }
    IN  IF keep = {} THEN << >>
        ELSE LET lo == CHOOSE i \in keep : \A j \in keep : i <= j
                 hi == CHOOSE i \in keep : \A j \in keep : i >= j
             IN  SubSeq(s, lo, hi)

(***************************************************************************)
(* The registry of package hashcs.                                         *)
(***************************************************************************)
\* NumHash is the number of supported hash algorithms.
NumHash == 18

\* Hashes are the supported hash algorithms (crypto.Hash values).
Hashes ==
    << "MD4",
       "MD5",
       "SHA1",
       "SHA224",
       "SHA256",
       "SHA384",
       "SHA512",
       "SHA512_224",
       "SHA512_256",
       "RIPEMD160",
       "SHA3_224",
       "SHA3_256",
       "SHA3_384",
       "SHA3_512",
       "BLAKE2s_256",
       "BLAKE2b_256",
       "BLAKE2b_384",
       "BLAKE2b_512" >>

\* crypto.Hash.String: the display name of each hash algorithm.
HashString ==
    ("MD4" :> <<"M","D","4">>)
    @@ ("MD5" :> <<"M","D","5">>)
    @@ ("SHA1" :> <<"S","H","A","-","1">>)
    @@ ("SHA224" :> <<"S","H","A","-","2","2","4">>)
    @@ ("SHA256" :> <<"S","H","A","-","2","5","6">>)
    @@ ("SHA384" :> <<"S","H","A","-","3","8","4">>)
    @@ ("SHA512" :> <<"S","H","A","-","5","1","2">>)
    @@ ("SHA512_224" :> <<"S","H","A","-","5","1","2","/","2","2","4">>)
    @@ ("SHA512_256" :> <<"S","H","A","-","5","1","2","/","2","5","6">>)
    @@ ("RIPEMD160" :> <<"R","I","P","E","M","D","-","1","6","0">>)
    @@ ("SHA3_224" :> <<"S","H","A","3","-","2","2","4">>)
    @@ ("SHA3_256" :> <<"S","H","A","3","-","2","5","6">>)
    @@ ("SHA3_384" :> <<"S","H","A","3","-","3","8","4">>)
    @@ ("SHA3_512" :> <<"S","H","A","3","-","5","1","2">>)
    @@ ("BLAKE2s_256" :> <<"B","L","A","K","E","2","s","-","2","5","6">>)
    @@ ("BLAKE2b_256" :> <<"B","L","A","K","E","2","b","-","2","5","6">>)
    @@ ("BLAKE2b_384" :> <<"B","L","A","K","E","2","b","-","3","8","4">>)
    @@ ("BLAKE2b_512" :> <<"B","L","A","K","E","2","b","-","5","1","2">>)

String(h) == HashString[h]

\* Names are the names and aliases of the supported hash algorithms.
Names ==
    << << <<"m","d","4">> >>,
       << <<"m","d","5">>,
          <<"m">> >>,
       << <<"s","h","a","-","1">>,
          <<"s","h","a","_","1">>,
          <<"s","h","a","1">> >>,
       << <<"s","h","a","-","2","2","4">>,
          <<"s","h","a","_","2","2","4">>,
          <<"s","h","a","2","2","4">> >>,
       << <<"s","h","a","-","2","5","6">>,
          <<"s","h","a","_","2","5","6">>,
          <<"s","h","a","2","5","6">>,
          <<"s">> >>,
       << <<"s","h","a","-","3","8","4">>,
          <<"s","h","a","_","3","8","4">>,
          <<"s","h","a","3","8","4">> >>,
       << <<"s","h","a","-","5","1","2">>,
          <<"s","h","a","_","5","1","2">>,
          <<"s","h","a","5","1","2">> >>,
       << <<"s","h","a","-","5","1","2","/","2","2","4">>,
          <<"s","h","a","-","5","1","2","_","2","2","4">>,
          <<"s","h","a","-","5","1","2","2","2","4">>,
          <<"s","h","a","_","5","1","2","/","2","2","4">>,
          <<"s","h","a","_","5","1","2","_","2","2","4">>,
          <<"s","h","a","_","5","1","2","2","2","4">>,
          <<"s","h","a","5","1","2","/","2","2","4">>,
          <<"s","h","a","5","1","2","_","2","2","4">>,
          <<"s","h","a","5","1","2","2","2","4">> >>,
       << <<"s","h","a","-","5","1","2","/","2","5","6">>,
          <<"s","h","a","-","5","1","2","_","2","5","6">>,
          <<"s","h","a","-","5","1","2","2","5","6">>,
          <<"s","h","a","_","5","1","2","/","2","5","6">>,
          <<"s","h","a","_","5","1","2","_","2","5","6">>,
          <<"s","h","a","_","5","1","2","2","5","6">>,
          <<"s","h","a","5","1","2","/","2","5","6">>,
          <<"s","h","a","5","1","2","_","2","5","6">>,
          <<"s","h","a","5","1","2","2","5","6">> >>,
       << <<"r","i","p","e","m","d","-","1","6","0">>,
          <<"r","i","p","e","m","d","_","1","6","0">>,
          <<"r","i","p","e","m","d","1","6","0">> >>,
       << <<"s","h","a","3","-","2","2","4">>,
          <<"s","h","a","3","_","2","2","4">>,
          <<"s","h","a","3","2","2","4">> >>,
       << <<"s","h","a","3","-","2","5","6">>,
          <<"s","h","a","3","_","2","5","6">>,
          <<"s","h","a","3","2","5","6">> >>,
       << <<"s","h","a","3","-","3","8","4">>,
          <<"s","h","a","3","_","3","8","4">>,
          <<"s","h","a","3","3","8","4">> >>,
       << <<"s","h","a","3","-","5","1","2">>,
          <<"s","h","a","3","_","5","1","2">>,
          <<"s","h","a","3","5","1","2">> >>,
       << <<"b","l","a","k","e","2","s","-","2","5","6">>,
          <<"b","l","a","k","e","2","s","_","2","5","6">>,
          <<"b","l","a","k","e","2","s","2","5","6">> >>,
       << <<"b","l","a","k","e","2","b","-","2","5","6">>,
          <<"b","l","a","k","e","2","b","_","2","5","6">>,
          <<"b","l","a","k","e","2","b","2","5","6">> >>,
       << <<"b","l","a","k","e","2","b","-","3","8","4">>,
          <<"b","l","a","k","e","2","b","_","3","8","4">>,
          <<"b","l","a","k","e","2","b","3","8","4">> >>,
       << <<"b","l","a","k","e","2","b","-","5","1","2">>,
          <<"b","l","a","k","e","2","b","_","5","1","2">>,
          <<"b","l","a","k","e","2","b","5","1","2">> >> >>

\* hashRankMap maps each hash to its rank in Hashes (index plus one);
\* a later entry of the same key overwrites an earlier one.
hashRankTable ==
    [ h \in { Hashes[i] : i \in 1..Len(Hashes) } |->
        CHOOSE i \in 1..Len(Hashes) :
            /\ Hashes[i] = h
            /\ \A j \in 1..Len(Hashes) : Hashes[j] = h => j <= i ]

\* hashRankMap[h]; a missing key is 0.
hashRankMap(h) == IF h \in DOMAIN hashRankTable THEN hashRankTable[h] ELSE 0

\* nameRankMap filled with the first name of each group only.
nameRankTableFirstNames ==
    [ name \in { Names[i][1] : i \in 1..Len(Names) } |->
        CHOOSE i \in 1..Len(Names) : Names[i][1] = name ]

\* nameRankMap maps each name and alias to its rank in Names.
nameRankTable ==
    [ name \in UNION { { Names[i][k] : k \in 1..Len(Names[i]) } : i \in 1..Len(Names) } |->
        CHOOSE i \in 1..Len(Names) :
            /\ \E k \in 1..Len(Names[i]) : Names[i][k] = name
            /\ \A j \in 1..Len(Names) :
                   (\E k \in 1..Len(Names[j]) : Names[j][k] = name) => j <= i ]

\* nameRankMap looked up with the name in lower case.
nameRankMapFolded(name) ==
    IF ToLower(name) \in DOMAIN nameRankTable THEN nameRankTable[ToLower(name)] ELSE 0

\* nameRankMap[name]; a missing key is 0.
nameRankMap(name) == IF name \in DOMAIN nameRankTable THEN nameRankTable[name] ELSE 0

\* verifyFlagNamesHashChecksum: the flag name of each hash algorithm.
verifyFlagNamesHashChecksum ==
    << <<"m","d","4">>,
       <<"m","d","5">>,
       <<"s","h","a","1">>,
       <<"s","h","a","2","2","4">>,
       <<"s","h","a","2","5","6">>,
       <<"s","h","a","3","8","4">>,
       <<"s","h","a","5","1","2">>,
       <<"s","h","a","5","1","2","-","2","2","4">>,
       <<"s","h","a","5","1","2","-","2","5","6">>,
       <<"r","i","p","e","m","d","1","6","0">>,
       <<"s","h","a","3","-","2","2","4">>,
       <<"s","h","a","3","-","2","5","6">>,
       <<"s","h","a","3","-","3","8","4">>,
       <<"s","h","a","3","-","5","1","2">>,
       <<"b","l","a","k","e","2","s","-","2","5","6">>,
       <<"b","l","a","k","e","2","b","-","2","5","6">>,
       <<"b","l","a","k","e","2","b","-","3","8","4">>,
       <<"b","l","a","k","e","2","b","-","5","1","2">> >>

(***************************************************************************)
(* Errors.  Nil is the nil error; every other error is a record whose      *)
(* field kind names the error and whose other fields are the values its    *)
(* message is formatted from.                                              *)
(***************************************************************************)
Nil == [kind |-> "nil"]

\* "invalid flag --%s: hash checksum prefix|suffix %q is not a valid hexadecimal representation"
InvalidHexError(flag, part, value) ==
    [kind |-> "invalid hex", flag |-> flag, part |-> part, value |-> value]

\* "hash checksum not specified"
NotSpecifiedError == [kind |-> "hash checksum not specified"]

\* "got %d hash checksums; want %d"
CountError(got, want) == [kind |-> "got hash checksums; want", got |-> got, want |-> want]

\* "the hash name of No.%d hash checksum is %q; want %q"
HashNameError(i, got, want) ==
    [kind |-> "the hash name of hash checksum is; want", index |-> i, got |-> got, want |-> want]

\* hashcs.NewUnknownHashAlgorithmError
NewUnknownHashAlgorithmError(hashName) == [kind |-> "unknown hash algorithm", hashName |-> hashName]

\* filesys.ErrIsDir and the error of opening a file that does not exist.
ErrIsDir == [kind |-> "is a directory"]

ErrNotExist == [kind |-> "file does not exist"]

(***************************************************************************)
(* The checksum engine of package hashcs.                                  *)
(*                                                                         *)
(* A file is a record: kind is "regular", "dir" or "missing", and sum      *)
(* gives, for each hash algorithm, the bytes of the file's digest.         *)
(***************************************************************************)
HexDigits == <<"0","1","2","3","4","5","6","7","8","9","a","b","c","d","e","f">>

\* hex.EncodeToString: two lowercase hexadecimal digits for each byte.
RECURSIVE EncodeToString(_)
EncodeToString(bytes) ==
    IF bytes = << >> THEN << >>
    ELSE << HexDigits[(Head(bytes) \div 16) + 1], HexDigits[(Head(bytes) % 16) + 1] >>
         \o EncodeToString(Tail(bytes))

\* local.Checksum that reads a directory as it reads a regular file.
localChecksumReadsDir(f, upper, hs) ==
    IF f.kind \notin {"regular", "dir"} THEN [cs |-> << >>, err |-> ErrNotExist]
    ELSE [cs  |-> [ i \in 1..Len(hs) |->
                      IF upper THEN ToUpper(EncodeToString(f.sum[hs[i]]))
                      ELSE EncodeToString(f.sum[hs[i]]) ],
          err |-> Nil]

\* local.Checksum with the sense of upper inverted.
localChecksumInverted(f, upper, hs) ==
    IF f.kind = "dir" THEN [cs |-> << >>, err |-> ErrIsDir]
    ELSE IF f.kind # "regular" THEN [cs |-> << >>, err |-> ErrNotExist]
    ELSE [cs  |-> [ i \in 1..Len(hs) |->
                      IF ~upper THEN ToUpper(EncodeToString(f.sum[hs[i]]))
                      ELSE EncodeToString(f.sum[hs[i]]) ],
          err |-> Nil]

\* local.Checksum: the hexadecimal digest of the file for each requested hash,
\* in the order requested; an error for a directory or an unreadable file.
localChecksum(f, upper, hs) ==
    IF f.kind = "dir" THEN [cs |-> << >>, err |-> ErrIsDir]
    ELSE IF f.kind # "regular" THEN [cs |-> << >>, err |-> ErrNotExist]
    ELSE [cs  |-> [ i \in 1..Len(hs) |->
                      IF upper THEN ToUpper(EncodeToString(f.sum[hs[i]]))
                      ELSE EncodeToString(f.sum[hs[i]]) ],
          err |-> Nil]

\* The position of the first name of hashNames that nameRankMap does not know, or 0.
FirstUnknown(hashNames) ==
    LET bad == { i \in 1..Len(hashNames) : nameRankMap(hashNames[i]) = 0 }
    IN  IF bad = {} THEN 0 ELSE CHOOSE i \in bad : \A j \in bad : i <= j

\* sort.Slice with the comparison reversed.
RECURSIVE SortByRankReversed(_)
SortByRankReversed(hashSet) ==
    IF hashSet = {} THEN << >>
    ELSE LET h == CHOOSE x \in hashSet : \A y \in hashSet : hashRankMap(x) >= hashRankMap(y)
         IN  << h >> \o SortByRankReversed(hashSet \ {h})

\* sort.Slice of the keys of hashSet by hashRankMap.
RECURSIVE SortByRank(_)
SortByRank(hashSet) ==
    IF hashSet = {} THEN << >>
    ELSE LET h == CHOOSE x \in hashSet : \A y \in hashSet : hashRankMap(x) <= hashRankMap(y)
         IN  << h >> \o SortByRank(hashSet \ {h})

\* CalculateChecksum with one hash for each requested name, in the order
\* of the request.
CalculateChecksumEachName(f, upper, hashNamesArg) ==
    LET hashNames == IF Len(hashNamesArg) = 0 THEN << <<"s","h","a","-","2","5","6">> >>
                     ELSE hashNamesArg
        bad       == FirstUnknown(hashNames)
    IN  IF bad # 0
        THEN [checksums |-> << >>, err |-> NewUnknownHashAlgorithmError(hashNames[bad])]
        ELSE LET hs == [ i \in 1..Len(hashNames) |-> Hashes[nameRankMap(hashNames[i])] ]
                 r  == localChecksum(f, upper, hs)
             IN  IF r.err # Nil THEN [checksums |-> << >>, err |-> r.err]
                 ELSE [checksums |-> [ i \in 1..Len(hs) |->
                                         [HashName |-> String(hs[i]), Checksum |-> r.cs[i]] ],
                       err |-> Nil]

\* CalculateChecksum without the default of SHA-256.
CalculateChecksumNoDefault(f, upper, hashNames) ==
    LET bad == FirstUnknown(hashNames)
    IN  IF bad # 0
        THEN [checksums |-> << >>, err |-> NewUnknownHashAlgorithmError(hashNames[bad])]
        ELSE LET hs == SortByRank({ Hashes[nameRankMap(hashNames[i])] : i \in 1..Len(hashNames) })
                 r  == localChecksum(f, upper, hs)
             IN  IF r.err # Nil THEN [checksums |-> << >>, err |-> r.err]
                 ELSE [checksums |-> [ i \in 1..Len(hs) |->
                                         [HashName |-> String(hs[i]), Checksum |-> r.cs[i]] ],
                       err |-> Nil]

\* CalculateChecksum that names each checksum in lower case, as verifyChecksum
\* requests the hash algorithms.
CalculateChecksumLowerNames(f, upper, hashNamesArg) ==
    LET hashNames == IF Len(hashNamesArg) = 0 THEN << <<"s","h","a","-","2","5","6">> >>
                     ELSE hashNamesArg
        bad       == FirstUnknown(hashNames)
    IN  IF bad # 0
        THEN [checksums |-> << >>, err |-> NewUnknownHashAlgorithmError(hashNames[bad])]
        ELSE LET hs == SortByRank({ Hashes[nameRankMap(hashNames[i])] : i \in 1..Len(hashNames) })
                 r  == localChecksum(f, upper, hs)
             IN  IF r.err # Nil THEN [checksums |-> << >>, err |-> r.err]
                 ELSE [checksums |-> [ i \in 1..Len(hs) |->
                                         [HashName |-> ToLower(String(hs[i])),
                                          Checksum |-> r.cs[i]] ],
                       err |-> Nil]

\* hashcs.CalculateChecksum
CalculateChecksum(f, upper, hashNamesArg) ==
    LET hashNames == IF Len(hashNamesArg) = 0 THEN << <<"s","h","a","-","2","5","6">> >>
                     ELSE hashNamesArg
        bad       == FirstUnknown(hashNames)
    IN  IF bad # 0
        THEN [checksums |-> << >>, err |-> NewUnknownHashAlgorithmError(hashNames[bad])]
        ELSE LET hashSet == { Hashes[nameRankMap(hashNames[i])] : i \in 1..Len(hashNames) }
                 hs      == SortByRank(hashSet)
                 n       == Len(hs)
                 r       == localChecksum(f, upper, hs)
             IN  IF r.err # Nil THEN [checksums |-> << >>, err |-> r.err]
                 ELSE IF Len(r.cs) > 0
                 THEN [checksums |-> [ i \in 1..n |->
                                         [HashName |-> String(hs[i]), Checksum |-> r.cs[i]] ],
                       err |-> Nil]
                 ELSE [checksums |-> << >>, err |-> Nil]

(***************************************************************************)
(* The verify command (package cmd).                                       *)
(***************************************************************************)
Marker == <<".", ".", ".">>

\* notLowerHexString without the test r > 'f'.
notLowerHexStringNoUpperBound(s) ==
    \E i \in 1..Len(s) :
        \/ Code(s[i]) < Code("0")
        \/ Code(s[i]) > Code("9") /\ Code(s[i]) < Code("a")

\* notLowerHexString reports whether s is not a valid lowercase
\* hexadecimal representation.
notLowerHexString(s) ==
    \E i \in 1..Len(s) :
        \/ Code(s[i]) < Code("0")
        \/ Code(s[i]) > Code("9") /\ Code(s[i]) < Code("a")
        \/ Code(s[i]) > Code("f")

\* The loop of parseHashChecksumFlags without the skip of empty flags.
RECURSIVE parseFromNoSkip(_, _, _)
parseFromNoSkip(fl, i, expectedSoFar) ==
    IF i > NumHash THEN [expected |-> expectedSoFar, err |-> Nil]
    ELSE LET c             == Cut(ToLower(fl[i]), Marker)
             prefix        == c.before
             suffix        == c.after
             prefixTrimmed == TrimPrefix(TrimSpace(prefix), <<"0", "x">>)
             suffixTrimmed == TrimPrefix(TrimSpace(suffix), <<"0", "x">>)
         IN  IF notLowerHexString(prefixTrimmed)
             THEN [expected |-> << >>,
                   err |-> InvalidHexError(verifyFlagNamesHashChecksum[i], "prefix", prefix)]
             ELSE IF notLowerHexString(suffixTrimmed)
             THEN [expected |-> << >>,
                   err |-> InvalidHexError(verifyFlagNamesHashChecksum[i], "suffix", suffix)]
             ELSE parseFromNoSkip(fl, i + 1,
                                  Append(expectedSoFar,
                                         [hashName |-> String(Hashes[i]),
                                          prefix   |-> prefixTrimmed,
                                          suffix   |-> suffixTrimmed]))

\* The loop of parseHashChecksumFlags that also skips the flags that
\* normalise to nothing.
RECURSIVE parseFromSkipBlank(_, _, _)
parseFromSkipBlank(fl, i, expectedSoFar) ==
    IF i > NumHash THEN [expected |-> expectedSoFar, err |-> Nil]
    ELSE IF TrimPrefix(TrimSpace(ToLower(fl[i])), <<"0", "x">>) = << >>
    THEN parseFromSkipBlank(fl, i + 1, expectedSoFar)
    ELSE LET c             == Cut(ToLower(fl[i]), Marker)
             prefix        == c.before
             suffix        == c.after
             prefixTrimmed == TrimPrefix(TrimSpace(prefix), <<"0", "x">>)
             suffixTrimmed == TrimPrefix(TrimSpace(suffix), <<"0", "x">>)
         IN  IF notLowerHexString(prefixTrimmed)
             THEN [expected |-> << >>,
                   err |-> InvalidHexError(verifyFlagNamesHashChecksum[i], "prefix", prefix)]
             ELSE IF notLowerHexString(suffixTrimmed)
             THEN [expected |-> << >>,
                   err |-> InvalidHexError(verifyFlagNamesHashChecksum[i], "suffix", suffix)]
             ELSE parseFromSkipBlank(fl, i + 1,
                                     Append(expectedSoFar,
                                            [hashName |-> String(Hashes[i]),
                                             prefix   |-> prefixTrimmed,
                                             suffix   |-> suffixTrimmed]))

\* The loop of parseHashChecksumFlags from index i (1-based) on.
RECURSIVE parseFrom(_, _, _)
parseFrom(fl, i, expectedSoFar) ==
    IF i > NumHash THEN [expected |-> expectedSoFar, err |-> Nil]
    ELSE IF fl[i] = << >> THEN parseFrom(fl, i + 1, expectedSoFar)
    ELSE LET c             == Cut(ToLower(fl[i]), Marker)
             prefix        == c.before
             suffix        == c.after
             prefixTrimmed == TrimPrefix(TrimSpace(prefix), <<"0", "x">>)
             suffixTrimmed == TrimPrefix(TrimSpace(suffix), <<"0", "x">>)
         IN  IF notLowerHexString(prefixTrimmed)
             THEN [expected |-> << >>,
                   err |-> InvalidHexError(verifyFlagNamesHashChecksum[i], "prefix", prefix)]
             ELSE IF notLowerHexString(suffixTrimmed)
             THEN [expected |-> << >>,
                   err |-> InvalidHexError(verifyFlagNamesHashChecksum[i], "suffix", suffix)]
             ELSE parseFrom(fl, i + 1,
                            Append(expectedSoFar,
                                   [hashName |-> String(Hashes[i]),
                                    prefix   |-> prefixTrimmed,
                                    suffix   |-> suffixTrimmed]))

\* parseHashChecksumFlags
parseHashChecksumFlags(fl) == parseFrom(fl, 1, << >>)

\* The test with && in place of ||: a mismatch only when both tests fail.
checkOneAnd(checksum, e) ==
    IF HasPrefix(checksum, e.prefix) THEN "match"
    ELSE IF Len(e.prefix) > Len(checksum) THEN "panic"
    ELSE IF ~HasSuffix(Slice(checksum, Len(e.prefix), Len(checksum)), e.suffix) THEN "mismatch"
    ELSE "match"

\* The test with the suffix looked for in the whole checksum.
checkOneWholeChecksum(checksum, e) ==
    IF ~HasPrefix(checksum, e.prefix) THEN "mismatch"
    ELSE IF ~HasSuffix(checksum, e.suffix) THEN "mismatch"
    ELSE "match"

\* The test with the slice starting one character early.
checkOneSliceOffByOne(checksum, e) ==
    IF ~HasPrefix(checksum, e.prefix) THEN "mismatch"
    ELSE IF Len(e.prefix) = 0
    THEN IF ~HasSuffix(checksum, e.suffix) THEN "mismatch" ELSE "match"
    ELSE IF ~HasSuffix(Slice(checksum, Len(e.prefix) - 1, Len(checksum)), e.suffix) THEN "mismatch"
    ELSE "match"

\* The test with the slice taken before the prefix is looked at.
checkOneSliceFirst(checksum, e) ==
    IF Len(e.prefix) > Len(checksum) THEN "panic"
    ELSE IF ~HasPrefix(checksum, e.prefix) THEN "mismatch"
    ELSE IF ~HasSuffix(Slice(checksum, Len(e.prefix), Len(checksum)), e.suffix) THEN "mismatch"
    ELSE "match"

\* The test of verifyChecksum on one checksum: "mismatch", "match", or
\* "panic" when the slice expression is evaluated out of range.
checkOne(checksum, e) ==
    IF ~HasPrefix(checksum, e.prefix) THEN "mismatch"
    ELSE IF Len(e.prefix) > Len(checksum) THEN "panic"
    ELSE IF ~HasSuffix(Slice(checksum, Len(e.prefix), Len(checksum)), e.suffix) THEN "mismatch"
    ELSE "match"

\* The comparison loop with the mismatches collected in reverse.
RECURSIVE compareFromPrepend(_, _, _, _)
compareFromPrepend(exp, cs, i, mismatchSoFar) ==
    IF i > Len(exp) THEN [mismatch |-> mismatchSoFar, err |-> Nil, panic |-> FALSE]
    ELSE IF exp[i].hashName # cs[i].HashName
    THEN [mismatch |-> << >>,
          err |-> HashNameError(i - 1, cs[i].HashName, exp[i].hashName),
          panic |-> FALSE]
    ELSE LET r == checkOne(cs[i].Checksum, exp[i])
         IN  IF r = "panic" THEN [mismatch |-> << >>, err |-> Nil, panic |-> TRUE]
             ELSE compareFromPrepend(exp, cs, i + 1,
                                     IF r = "mismatch" THEN << cs[i] >> \o mismatchSoFar
                                     ELSE mismatchSoFar)

\* The comparison loop of verifyChecksum from index i (1-based) on.
RECURSIVE compareFrom(_, _, _, _)
compareFrom(exp, cs, i, mismatchSoFar) ==
    IF i > Len(exp) THEN [mismatch |-> mismatchSoFar, err |-> Nil, panic |-> FALSE]
    ELSE IF exp[i].hashName # cs[i].HashName
    THEN [mismatch |-> << >>,
          err |-> HashNameError(i - 1, cs[i].HashName, exp[i].hashName),
          panic |-> FALSE]
    ELSE LET r == checkOne(cs[i].Checksum, exp[i])
         IN  IF r = "panic" THEN [mismatch |-> << >>, err |-> Nil, panic |-> TRUE]
             ELSE compareFrom(exp, cs, i + 1,
                              IF r = "mismatch" THEN Append(mismatchSoFar, cs[i])
                              ELSE mismatchSoFar)

\* verifyChecksum as a function of its arguments: the mismatch list, the
\* error and isIllegalUseError it returns, and whether it panics.
verifyChecksum(f, fl) ==
    LET p == parseHashChecksumFlags(fl)
        n == Len(p.expected)
    IN  IF p.err # Nil
        THEN [mismatch |-> << >>, err |-> p.err, isIllegalUseError |-> TRUE, panic |-> FALSE]
        ELSE IF n = 0
        THEN [mismatch |-> << >>, err |-> NotSpecifiedError,
              isIllegalUseError |-> TRUE, panic |-> FALSE]
        ELSE LET c == CalculateChecksum(f, FALSE,
                                        [ i \in 1..n |-> ToLower(p.expected[i].hashName) ])
             IN  IF c.err # Nil
                 THEN [mismatch |-> << >>, err |-> c.err,
                       isIllegalUseError |-> FALSE, panic |-> FALSE]
                 ELSE IF Len(c.checksums) # n
                 THEN [mismatch |-> << >>, err |-> CountError(Len(c.checksums), n),
                       isIllegalUseError |-> FALSE, panic |-> FALSE]
                 ELSE LET r == compareFrom(p.expected, c.checksums, 1, << >>)
                      IN  [mismatch |-> r.mismatch, err |-> r.err,
                           isIllegalUseError |-> FALSE, panic |-> r.panic]

(***************************************************************************)
(* Bounds of the inputs.                                                   *)
(***************************************************************************)
\* Flags may be given for the hash algorithms of rank 1..MaxRank.
MaxRank == 2

\* At most MaxSpecified flags are given in one call.
MaxSpecified == 2

\* The prefix and suffix candidates of an expression have at most
\* MaxPartsLen characters together.
MaxPartsLen == 3

\* The number of bytes of a digest.
DigestSize == 1

\* The values a digest byte takes: 0x0a and 0xa0.
SumBytes == {10, 160}

\* The characters of the prefix and suffix candidates.
ExprChars == {"0", "a", "A", "x", " "}

FileKinds == {"regular", "dir", "missing"}

Sums == [1..DigestSize -> SumBytes]

ZeroSum == [i \in 1..DigestSize |-> 0]

\* The strings over chars of length at most n.
StringsUpTo(chars, n) == UNION { [1..k -> chars] : k \in 0..n }

\* Every expression: a prefix candidate alone, or a prefix candidate, the
\* marker and a suffix candidate.
Exprs ==
    StringsUpTo(ExprChars, MaxPartsLen)
    \cup { ps[1] \o Marker \o ps[2] :
             ps \in { q \in StringsUpTo(ExprChars, MaxPartsLen) \X StringsUpTo(ExprChars, MaxPartsLen) :
                        Len(q[1]) + Len(q[2]) <= MaxPartsLen } }

\* The expressions of a call with several flags: a digest in full, the
\* marker alone, a prefix with a suffix, and an invalid one.
FewExprs ==
    { EncodeToString(b) : b \in Sums }
    \cup { Marker, <<"0">> \o Marker \o <<"a">>, <<"x">> }

(***************************************************************************)
(* The state: the arguments of verifyChecksum (flags, file), its position  *)
(* (pc), its local variables and its results; upper is the argument of    *)
(* that name of hashcs.CalculateChecksum.  In the actions,                 *)
(* \E r \in {e} names the value of e.                                      *)
(***************************************************************************)
VARIABLES flags, file, pc, expected, hashNames, checksums,
          mismatch, err, isIllegalUseError, upper,
          silent, args, stdout, stderr, exitCode, output, inJSON, outFile

\* The state of a command around the call: the flag "silent" and the
\* number of arguments of the verify command; what has been written to the
\* standard output and error streams; the exit code of the process (-1
\* while it runs); the arguments output and inJSON of printChecksum; and
\* the file that output names.
ioVars == << silent, args, stdout, stderr, exitCode, output, inJSON, outFile >>

vars == << flags, file, pc, expected, hashNames, checksums,
           mismatch, err, isIllegalUseError, upper, ioVars >>

\* The file that output names does not exist.
NoFile == [exists |-> FALSE, content |-> << >>, writable |-> TRUE]

\* No command runs around the call, and nothing has been written.
NoCommand ==
    /\ silent = FALSE
    /\ args = 1
    /\ stdout = << >>
    /\ stderr = << >>
    /\ exitCode = -1
    /\ output = << >>
    /\ inJSON = FALSE
    /\ outFile = NoFile

\* The digests of a file of kind k for the hash algorithms of the ranks in
\* given: any digests for a regular file, which alone is read.
SumsOf(k, given) ==
    IF k = "regular" THEN [given -> Sums] ELSE { [ i \in given |-> ZeroSum ] }

\* The file of kind k whose digest is s[i] for the hash algorithm of each
\* rank i in the domain of s; the other digests are all zero.
FileOf(k, s) ==
    [kind |-> k,
     sum  |-> [ h \in DOMAIN HashString |->
                  IF hashRankMap(h) \in DOMAIN s THEN s[hashRankMap(h)] ELSE ZeroSum ]]

\* The first call of verifyChecksum: its arguments and the zero values of
\* the rest.
Start(fl, f) ==
    /\ flags = fl
    /\ file = f
    /\ pc = "parse"
    /\ expected = << >>
    /\ hashNames = << >>
    /\ checksums = << >>
    /\ mismatch = << >>
    /\ err = Nil
    /\ isIllegalUseError = FALSE
    /\ upper = FALSE
    /\ NoCommand

\* A call with one flag, the one of rank MaxRank, and any expression.
InitOne ==
    \E e \in Exprs \ {<< >>}, k \in FileKinds :
    \E s \in SumsOf(k, {MaxRank}) :
        Start([ i \in 1..NumHash |-> IF i = MaxRank THEN e ELSE << >> ], FileOf(k, s))

\* A call with at most MaxSpecified flags, of rank at most MaxRank, each
\* with one of the few expressions.
InitFew ==
    \E given \in { c \in SUBSET (1..MaxRank) : Cardinality(c) <= MaxSpecified } :
    \E e \in [given -> FewExprs], k \in FileKinds :
    \E s \in SumsOf(k, given) :
        Start([ i \in 1..NumHash |-> IF i \in given THEN e[i] ELSE << >> ], FileOf(k, s))

Init == InitOne \/ InitFew

\* ParseFlags that accesses the file before it validates the flags.
ParseFlagsAccessesFile ==
    /\ pc = "parse"
    /\ \E a \in { CalculateChecksum(file, FALSE, << >>) } :
       \E r \in { parseHashChecksumFlags(flags) } :
       LET n == Len(r.expected)
       IN  IF a.err # Nil
           THEN /\ err' = a.err
                /\ isIllegalUseError' = FALSE
                /\ pc' = "done"
                /\ UNCHANGED << expected, hashNames >>
           ELSE IF r.err # Nil
           THEN /\ err' = r.err
                /\ isIllegalUseError' = TRUE
                /\ pc' = "done"
                /\ UNCHANGED << expected, hashNames >>
           ELSE IF n = 0
           THEN /\ err' = NotSpecifiedError
                /\ isIllegalUseError' = TRUE
                /\ pc' = "done"
                /\ expected' = r.expected
                /\ UNCHANGED hashNames
           ELSE /\ expected' = r.expected
                /\ hashNames' = [ i \in 1..n |-> ToLower(r.expected[i].hashName) ]
                /\ pc' = "calculate"
                /\ UNCHANGED << err, isIllegalUseError >>
    /\ mismatch' = << >>
    /\ UNCHANGED << flags, file, checksums, upper, ioVars >>

\* verifyChecksum up to the call of hashcs.CalculateChecksum: the flags are
\* parsed and the names of the hash algorithms collected.
ParseFlags ==
    /\ pc = "parse"
    /\ \E r \in { parseHashChecksumFlags(flags) } :
       LET n == Len(r.expected)
       IN  IF r.err # Nil
           THEN /\ err' = r.err
                /\ isIllegalUseError' = TRUE
                /\ pc' = "done"
                /\ UNCHANGED << expected, hashNames >>
           ELSE IF n = 0
           THEN /\ err' = NotSpecifiedError
                /\ isIllegalUseError' = TRUE
                /\ pc' = "done"
                /\ expected' = r.expected
                /\ UNCHANGED hashNames
           ELSE /\ expected' = r.expected
                /\ hashNames' = [ i \in 1..n |-> ToLower(r.expected[i].hashName) ]
                /\ pc' = "calculate"
                /\ UNCHANGED << err, isIllegalUseError >>
    /\ mismatch' = << >>
    /\ UNCHANGED << flags, file, checksums, upper, ioVars >>

\* Calculate that goes on to the comparison after an error of the engine.
CalculateGoesOn ==
    /\ pc = "calculate"
    /\ \E r \in { CalculateChecksum(file, FALSE, hashNames) } :
           /\ err' = r.err
           /\ checksums' = r.checksums
           /\ pc' = IF Len(r.checksums) = Len(expected) THEN "compare" ELSE "done"
           /\ mismatch' = IF r.err # Nil
                           THEN [ i \in 1..Len(expected) |->
                                    [HashName |-> expected[i].hashName, Checksum |-> << >>] ]
                           ELSE << >>
    /\ isIllegalUseError' = FALSE
    /\ UNCHANGED << flags, file, expected, hashNames, upper, ioVars >>

\* Calculate that asks for the checksums in upper case.
CalculateUpper ==
    /\ pc = "calculate"
    /\ \E r \in { CalculateChecksum(file, TRUE, hashNames) } :
       LET n == Len(expected)
       IN  IF r.err # Nil
           THEN /\ err' = r.err
                /\ pc' = "done"
                /\ UNCHANGED checksums
           ELSE IF Len(r.checksums) # n
           THEN /\ err' = CountError(Len(r.checksums), n)
                /\ pc' = "done"
                /\ checksums' = r.checksums
           ELSE /\ checksums' = r.checksums
                /\ pc' = "compare"
                /\ UNCHANGED err
    /\ isIllegalUseError' = FALSE
    /\ mismatch' = << >>
    /\ UNCHANGED << flags, file, expected, hashNames, upper, ioVars >>

\* verifyChecksum: the call of hashcs.CalculateChecksum and the check of
\* the number of checksums.
Calculate ==
    /\ pc = "calculate"
    /\ \E r \in { CalculateChecksum(file, FALSE, hashNames) } :
       LET n == Len(expected)
       IN  IF r.err # Nil
           THEN /\ err' = r.err
                /\ pc' = "done"
                /\ UNCHANGED checksums
           ELSE IF Len(r.checksums) # n
           THEN /\ err' = CountError(Len(r.checksums), n)
                /\ pc' = "done"
                /\ checksums' = r.checksums
           ELSE /\ checksums' = r.checksums
                /\ pc' = "compare"
                /\ UNCHANGED err
    /\ isIllegalUseError' = FALSE
    /\ mismatch' = << >>
    /\ UNCHANGED << flags, file, expected, hashNames, upper, ioVars >>

\* verifyChecksum: the comparison loop and the return.
Compare ==
    /\ pc = "compare"
    /\ \E r \in { compareFrom(expected, checksums, 1, << >>) } :
           /\ mismatch' = r.mismatch
           /\ err' = r.err
           /\ pc' = IF r.panic THEN "panic" ELSE "done"
    /\ isIllegalUseError' = FALSE
    /\ UNCHANGED << flags, file, expected, hashNames, checksums, upper, ioVars >>

Next == ParseFlags \/ Calculate \/ Compare

Spec == Init /\ [][Next]_vars


(***************************************************************************)
(* Vocabulary of the properties.                                           *)
(***************************************************************************)
LowerHexChars == {"0","1","2","3","4","5","6","7","8","9","a","b","c","d","e","f"}

\* The ranks of the hash algorithms whose flag is given.
Specified == { i \in 1..NumHash : flags[i] # << >> }

\* The true digest of the file for the hash algorithm of rank i, in lowercase.
Digest(i) == EncodeToString(file.sum[Hashes[i]])

\* The rank of the hash algorithm with display name n.
RankOfName(n) == CHOOSE i \in 1..NumHash : String(Hashes[i]) = n

\* The hash algorithm of rank i is in the mismatch list.
Reported(i) == \E m \in 1..Len(mismatch) : mismatch[m].HashName = String(Hashes[i])

\* verifyChecksum has returned / has returned without error.
Returned == pc = "done"

ReturnedOK == pc = "done" /\ err = Nil

\* d starts with p, character by character.
StartsWith(d, p) == Len(p) <= Len(d) /\ \A j \in 1..Len(p) : d[j] = p[j]

\* d ends with s, character by character.
EndsWith(d, s) == Len(s) <= Len(d) /\ \A j \in 1..Len(s) : d[Len(d) - Len(s) + j] = s[j]

\* d without its first n characters.
Remainder(d, n) == [ j \in 1..(Len(d) - n) |-> d[n + j] ]

\* The expressions built from the digest d that are meant to match it:
\* d[:a], and d[:a] "..." d[b:] with a <= b.
GoodExprs(d) ==
    { SubSeq(d, 1, a) : a \in 1..Len(d) }
    \cup { SubSeq(d, 1, ab[1]) \o Marker \o SubSeq(d, ab[2] + 1, Len(d)) :
             ab \in { q \in (0..Len(d)) \X (0..Len(d)) : q[1] <= q[2] } }

\* e is g with exactly one character of its prefix or suffix changed to a
\* different hexadecimal digit.
OneDigitChanged(e, g) ==
    /\ Len(e) = Len(g)
    /\ \E j \in 1..Len(g) :
           /\ g[j] # "."
           /\ LowerChar(e[j]) \in LowerHexChars
           /\ LowerChar(e[j]) # g[j]
           /\ \A k \in (1..Len(g)) \ {j} : e[k] = g[k]

\* C1: after a return without error, the hash algorithm of every parsed
\* (prefix, suffix) is in the mismatch list exactly when it is not the case
\* that the digest starts with the prefix and the digest without its first
\* len(prefix) characters ends with the suffix.
C1_MatchRule ==
    ReturnedOK =>
        \A k \in 1..Len(expected) :
            LET i == RankOfName(expected[k].hashName)
                d == Digest(i)
                p == expected[k].prefix
                s == expected[k].suffix
            IN  Reported(i) <=>
                    ~(StartsWith(d, p) /\ EndsWith(Remainder(d, Len(p)), s))

\* A call has returned with a match on a non-empty prefix and a non-empty
\* suffix, and with a mismatch for another hash algorithm.
C1_Witness ==
    /\ ReturnedOK
    /\ Len(mismatch) = 1
    /\ \E k \in 1..Len(expected) :
           /\ ~Reported(RankOfName(expected[k].hashName))
           /\ expected[k].prefix # << >>
           /\ expected[k].suffix # << >>

\* Every given flag is the digest split at some point k around the marker.
AllRoundTrip ==
    /\ Specified # {}
    /\ \A i \in Specified :
           \E k \in 0..Len(Digest(i)) :
               flags[i] = SubSeq(Digest(i), 1, k) \o Marker
                          \o SubSeq(Digest(i), k + 1, Len(Digest(i)))

\* C2: on a regular file, when every given flag is D[:k] "..." D[k:] for the
\* true digest D, the call returns no error and no mismatch.
C2_RoundTrip ==
    (Returned /\ file.kind = "regular" /\ AllRoundTrip) =>
        (err = Nil /\ mismatch = << >>)

\* A round-trip call has returned, with a split strictly inside the digest.
C2_Witness ==
    /\ Returned /\ file.kind = "regular" /\ AllRoundTrip
    /\ \E i \in Specified :
       \E k \in 1..(Len(Digest(i)) - 1) :
           flags[i] = SubSeq(Digest(i), 1, k) \o Marker
                      \o SubSeq(Digest(i), k + 1, Len(Digest(i)))

\* C3: on a regular file, when at least one flag is given and every given
\* flag is D[:i] or D[:i] "..." D[j:] with i <= j for its true digest D, the
\* call returns a nil mismatch list, a nil error and isIllegalUseError false.
C3_AllGood ==
    (Returned /\ file.kind = "regular" /\ Specified # {}
       /\ \A i \in Specified : flags[i] \in GoodExprs(Digest(i))) =>
        (mismatch = << >> /\ err = Nil /\ isIllegalUseError = FALSE)

\* Such a call has returned for two hash algorithms, one given with a
\* non-empty prefix and a non-empty suffix.
C3_Witness ==
    /\ Returned /\ file.kind = "regular"
    /\ Cardinality(Specified) = 2
    /\ \A i \in Specified : flags[i] \in GoodExprs(Digest(i))
    /\ \E k \in 1..Len(expected) : expected[k].prefix # << >> /\ expected[k].suffix # << >>

\* C4: on a regular file, a hash algorithm whose flag is "..." is never in
\* the mismatch list, and when no other flag is given the call returns no
\* error and no mismatch.
C4_MarkerAlone ==
    (Returned /\ file.kind = "regular") =>
        /\ \A i \in Specified : flags[i] = Marker => ~Reported(i)
        /\ (Specified # {} /\ \A i \in Specified : flags[i] = Marker) =>
               (err = Nil /\ mismatch = << >>)

\* A call has returned a mismatch for one hash algorithm while the flag of
\* another is "...".
C4_Witness ==
    /\ ReturnedOK
    /\ mismatch # << >>
    /\ \E i \in Specified : flags[i] = Marker

\* The flag of rank i is a good expression with one digit changed, and
\* every other given flag is a good expression.
OneWrong(i) ==
    /\ i \in Specified
    /\ \E g \in GoodExprs(Digest(i)) : OneDigitChanged(flags[i], g)
    /\ \A j \in Specified \ {i} : flags[j] \in GoodExprs(Digest(j))

\* C5: on a regular file, when one digit of one otherwise matching
\* expression is changed, the call returns no error, isIllegalUseError
\* false and exactly one mismatch record: the display name of that hash
\* algorithm with the true digest.
C5_OneDigitChanged ==
    (Returned /\ file.kind = "regular") =>
        \A i \in 1..NumHash :
            OneWrong(i) =>
                /\ err = Nil
                /\ isIllegalUseError = FALSE
                /\ mismatch = << [HashName |-> String(Hashes[i]), Checksum |-> Digest(i)] >>

\* Such a call has returned, the changed digit being in the suffix.
C5_Witness ==
    /\ Returned /\ file.kind = "regular"
    /\ \E i \in 1..NumHash :
           /\ OneWrong(i)
           /\ \E k \in 1..Len(expected) :
                  /\ expected[k].hashName = String(Hashes[i])
                  /\ HasPrefix(Digest(i), expected[k].prefix)
                  /\ expected[k].suffix # << >>

\* The digest of the hash algorithm of the k-th expected record fails its
\* expectation: prefix and suffix do not both fit the digest's ends
\* without sharing a character.
Fails(k) ==
    LET d == Digest(RankOfName(expected[k].hashName))
        p == expected[k].prefix
        s == expected[k].suffix
    IN  ~(Len(p) + Len(s) <= Len(d) /\ StartsWith(d, p) /\ EndsWith(d, s))

\* C6: after a return without error, the mismatch list is the list of the
\* hash algorithms whose digest fails its expectation, in registry order
\* and each once, every record carrying the true digest.
C6_MismatchOrder ==
    ReturnedOK =>
        /\ \A m \in 1..(Len(mismatch) - 1) :
               RankOfName(mismatch[m].HashName) < RankOfName(mismatch[m + 1].HashName)
        /\ { mismatch[m] : m \in 1..Len(mismatch) }
               = { [HashName |-> expected[k].hashName,
                    Checksum |-> Digest(RankOfName(expected[k].hashName))] :
                     k \in { x \in 1..Len(expected) : Fails(x) } }

\* A call has returned two mismatches.
C6_Witness == ReturnedOK /\ Len(mismatch) = 2

\* The prefix and suffix of the k-th expected record are together longer
\* than the digest.
Overlaps(k) ==
    Len(expected[k].prefix) + Len(expected[k].suffix)
        > Len(Digest(RankOfName(expected[k].hashName)))

\* The digest starts with the prefix and ends with the suffix of the k-th
\* expected record.
FitsBothEnds(k) ==
    LET d == Digest(RankOfName(expected[k].hashName))
    IN  StartsWith(d, expected[k].prefix) /\ EndsWith(d, expected[k].suffix)

\* C7: after a return without error, every hash algorithm whose prefix and
\* suffix are together longer than the digest is in the mismatch list.
C7_NoOverlap ==
    ReturnedOK =>
        \A k \in 1..Len(expected) :
            Overlaps(k) => Reported(RankOfName(expected[k].hashName))

\* A call has returned for an overlapping prefix and suffix that the digest
\* starts and ends with.
C7_Witness ==
    ReturnedOK /\ \E k \in 1..Len(expected) : Overlaps(k) /\ FitsBothEnds(k)

\* C8 as stated: overlapping windows are permitted, so an expression whose
\* prefix and suffix are together longer than the digest is reported as a
\* match when the digest starts with the prefix and ends with the suffix.
C8_OverlapPermitted ==
    ReturnedOK =>
        \A k \in 1..Len(expected) :
            (Overlaps(k) /\ FitsBothEnds(k)) => ~Reported(RankOfName(expected[k].hashName))

\* C8 as amended: the positional suffix rule permits no overlap; for every
\* hash algorithm reported as a match the digest is the prefix, a middle
\* part (possibly empty) and the suffix.
C8_MatchIsDisjoint ==
    ReturnedOK =>
        \A k \in 1..Len(expected) :
            ~Reported(RankOfName(expected[k].hashName)) =>
                LET d == Digest(RankOfName(expected[k].hashName))
                    p == expected[k].prefix
                    s == expected[k].suffix
                IN  \E n \in 0..Len(d) :
                        /\ Len(d) = Len(p) + n + Len(s)
                        /\ d = p \o SubSeq(d, Len(p) + 1, Len(p) + n) \o s

\* A call has returned a match whose prefix and suffix meet in the digest
\* without sharing a character.
C8_Witness ==
    /\ ReturnedOK
    /\ \E k \in 1..Len(expected) :
           /\ ~Reported(RankOfName(expected[k].hashName))
           /\ expected[k].prefix # << >>
           /\ expected[k].suffix # << >>
           /\ Len(expected[k].prefix) + Len(expected[k].suffix)
                  = Len(Digest(RankOfName(expected[k].hashName)))

\* C9: when every flag is empty, the call fails with "hash checksum not
\* specified", a nil mismatch list and isIllegalUseError true.
C9_NotSpecified ==
    (Returned /\ Specified = {}) =>
        (err = NotSpecifiedError /\ mismatch = << >> /\ isIllegalUseError = TRUE)

\* A call with every flag empty has returned.
C9_Witness == Returned /\ Specified = {}

\* The prefix and suffix candidates of an expression, in lowercase.
PrefixCandidate(e) == Cut(ToLower(e), Marker).before

SuffixCandidate(e) == Cut(ToLower(e), Marker).after

\* A candidate, trimmed and without a leading "0x", has a character
\* outside 0-9a-f.
NotHex(x) ==
    \E j \in 1..Len(TrimPrefix(TrimSpace(x), <<"0", "x">>)) :
        TrimPrefix(TrimSpace(x), <<"0", "x">>)[j] \notin LowerHexChars

\* The given flags with an invalid prefix or suffix candidate.
BadFlags ==
    { i \in Specified : NotHex(PrefixCandidate(flags[i])) \/ NotHex(SuffixCandidate(flags[i])) }

\* C10: when a given flag has an invalid prefix or suffix candidate, the
\* call fails with the invalid-hex error of such a flag, naming the flag and
\* the part (the prefix when both parts are invalid), with a nil mismatch
\* list and isIllegalUseError true.
C10_InvalidHex ==
    (Returned /\ BadFlags # {}) =>
        /\ err.kind = "invalid hex"
        /\ \E i \in BadFlags :
               /\ err.flag = verifyFlagNamesHashChecksum[i]
               /\ err.part = IF NotHex(PrefixCandidate(flags[i])) THEN "prefix" ELSE "suffix"
        /\ mismatch = << >>
        /\ isIllegalUseError = TRUE

\* A call has returned the error of an invalid flag that follows, in
\* registry order, a flag that is the true digest.
C10_Witness ==
    /\ Returned /\ file.kind = "regular"
    /\ err.kind = "invalid hex"
    /\ \E i \in Specified, j \in BadFlags : i < j /\ flags[i] = Digest(i)

(***************************************************************************)
(* Calls of verifyChecksum that exercise the parser: one flag, whose       *)
(* expression is any string of dots and a letter, or a candidate of        *)
(* spaces, "0X" and digits in upper case, alone or after the marker.       *)
(***************************************************************************)
\* The expressions of dots have at most MaxDotsLen characters.
MaxDotsLen == 8

\* The candidates to normalise have at most MaxNormLen characters.
MaxNormLen == 5

DotChars == {".", "a"}

NormChars == {" ", "0", "X", "A"}

ParseExprs ==
    (StringsUpTo(DotChars, MaxDotsLen)
        \cup StringsUpTo(NormChars, MaxNormLen)
        \cup { Marker \o c : c \in StringsUpTo(NormChars, MaxNormLen) })
    \ { << >> }

InitParse ==
    \E e \in ParseExprs, k \in FileKinds :
    \E s \in SumsOf(k, {MaxRank}) :
        Start([ i \in 1..NumHash |-> IF i = MaxRank THEN e ELSE << >> ], FileOf(k, s))

SpecParse == InitParse /\ [][Next]_vars

\* The number of characters before the first "..." of e, or -1 when e has
\* no three dots in a row.
FirstMarker(e) ==
    LET at == { m \in 0..(Len(e) - 3) : e[m + 1] = "." /\ e[m + 2] = "." /\ e[m + 3] = "." }
    IN  IF at = {} THEN -1 ELSE CHOOSE m \in at : \A n \in at : m <= n

\* The text of e before and after its first "...", in lowercase; all of e
\* and nothing when e has no "...".
TextBefore(e) ==
    IF FirstMarker(e) = -1 THEN [ j \in 1..Len(e) |-> LowerChar(e[j]) ]
    ELSE [ j \in 1..FirstMarker(e) |-> LowerChar(e[j]) ]

TextAfter(e) ==
    IF FirstMarker(e) = -1 THEN << >>
    ELSE [ j \in 1..(Len(e) - FirstMarker(e) - 3) |-> LowerChar(e[FirstMarker(e) + 3 + j]) ]

HasDot(x) == \E j \in 1..Len(x) : x[j] = "."

\* The parser has accepted every flag.
Parsed == pc # "parse" /\ err.kind # "invalid hex" /\ err # NotSpecifiedError

\* The expected record of the hash algorithm of rank i.
ExpectedOf(i) ==
    expected[CHOOSE k \in 1..Len(expected) : expected[k].hashName = String(Hashes[i])]

\* C11: the expression is split at its first "...".  With one flag given:
\* an invalid-hex error quotes the text before the first "..." as the prefix
\* or the text after it as the suffix; a dot before the first "..." (or any
\* dot when there is no "...") is reported as an invalid prefix, and
\* otherwise a dot after the first "..." as an invalid suffix; an accepted
\* expression without "..." has an empty suffix.
C11_FirstMarker ==
    (Returned /\ Cardinality(Specified) = 1) =>
        \A i \in Specified :
            /\ err.kind = "invalid hex" =>
                   \/ err.part = "prefix" /\ err.value = TextBefore(flags[i])
                   \/ err.part = "suffix" /\ err.value = TextAfter(flags[i])
            /\ HasDot(TextBefore(flags[i])) =>
                   err.kind = "invalid hex" /\ err.part = "prefix"
            /\ (~HasDot(TextBefore(flags[i])) /\ HasDot(TextAfter(flags[i]))) =>
                   err.kind = "invalid hex" /\ err.part = "suffix"
                       /\ err.value = TextAfter(flags[i])
            /\ (Parsed /\ FirstMarker(flags[i]) = -1) => ExpectedOf(i).suffix = << >>

\* A call has returned the error of a suffix that holds a second "...".
C11_Witness ==
    /\ Returned /\ Cardinality(Specified) = 1
    /\ err.kind = "invalid hex" /\ err.part = "suffix"
    /\ FirstMarker(err.value) >= 0
    /\ err.value[1] # "."

\* A call has returned the error of a prefix of two dots and a digit.
C11_WitnessNoMarker ==
    /\ Returned /\ Cardinality(Specified) = 1
    /\ err.kind = "invalid hex" /\ err.part = "prefix"
    /\ \E i \in Specified : FirstMarker(flags[i]) = -1 /\ HasDot(flags[i])

\* The flags with every expression in upper case / in lower case.
UpperFlags == [ i \in 1..NumHash |-> [ j \in 1..Len(flags[i]) |-> UpperChar(flags[i][j]) ] ]

LowerFlags == [ i \in 1..NumHash |-> [ j \in 1..Len(flags[i]) |-> LowerChar(flags[i][j]) ] ]

\* The call of verifyChecksum on the same file with the flags fl returns
\* the outcome of this call: the same kind of error, the same mismatch list
\* and the same isIllegalUseError.
SameOutcome(fl) ==
    LET r == verifyChecksum(file, fl)
    IN  /\ ~r.panic
        /\ r.err.kind = err.kind
        /\ r.mismatch = mismatch
        /\ r.isIllegalUseError = isIllegalUseError

\* C12: the outcome of a call is the outcome of the call with every
\* expression in upper case and of the call with every expression in lower
\* case.
C12_CaseInsensitive ==
    Returned => (SameOutcome(UpperFlags) /\ SameOutcome(LowerFlags))

\* A call has returned a match for an expression of mixed case, which
\* differs from its lower case and from its upper case.
C12_Witness ==
    /\ ReturnedOK
    /\ \E i \in Specified :
           /\ flags[i] # LowerFlags[i]
           /\ flags[i] # UpperFlags[i]
           /\ ~Reported(i)
           /\ ExpectedOf(i).prefix # << >>

\* The number of spaces c starts with and ends with.
LeadingSpaces(c) ==
    CHOOSE n \in 0..Len(c) :
        (\A j \in 1..n : c[j] = " ") /\ (n = Len(c) \/ c[n + 1] # " ")

TrailingSpaces(c) ==
    CHOOSE n \in 0..Len(c) :
        (\A j \in 1..n : c[Len(c) + 1 - j] = " ") /\ (n = Len(c) \/ c[Len(c) - n] # " ")

\* c without the spaces around it.
Core(c) ==
    IF LeadingSpaces(c) = Len(c) THEN << >>
    ELSE [ j \in 1..(Len(c) - LeadingSpaces(c) - TrailingSpaces(c)) |-> c[LeadingSpaces(c) + j] ]

\* The normal form of a lowercase candidate c: c without the spaces around
\* it and then without one leading "0x".
Normal(c) ==
    IF Len(Core(c)) >= 2 /\ Core(c)[1] = "0" /\ Core(c)[2] = "x"
    THEN [ j \in 1..(Len(Core(c)) - 2) |-> Core(c)[j + 2] ]
    ELSE Core(c)

AllLowerHex(x) == \A j \in 1..Len(x) : x[j] \in LowerHexChars

\* C13: with one flag given, the expression is accepted exactly when the
\* normal forms of its two candidates (lowercased, then trimmed, then
\* without one leading "0x") have only characters of 0-9a-f; the stored
\* prefix and suffix are these normal forms.
C13_Normalised ==
    (pc # "parse" /\ Cardinality(Specified) = 1) =>
        \A i \in Specified :
            /\ Parsed <=> (AllLowerHex(Normal(TextBefore(flags[i])))
                             /\ AllLowerHex(Normal(TextAfter(flags[i]))))
            /\ Parsed =>
                   /\ ExpectedOf(i).prefix = Normal(TextBefore(flags[i]))
                   /\ ExpectedOf(i).suffix = Normal(TextAfter(flags[i]))
                   /\ AllLowerHex(ExpectedOf(i).prefix)
                   /\ AllLowerHex(ExpectedOf(i).suffix)

\* An expression with a space, "0X", a digit in upper case and a space has
\* been accepted with that digit, in lower case, as its prefix.
C13_Witness ==
    /\ Parsed /\ Cardinality(Specified) = 1
    /\ \E i \in Specified :
           /\ flags[i][1] = " " /\ flags[i][Len(flags[i])] = " "
           /\ \E j \in 1..(Len(flags[i]) - 2) :
                  flags[i][j] = "0" /\ flags[i][j + 1] = "X" /\ flags[i][j + 2] = "A"
           /\ ExpectedOf(i).prefix = <<"a">>

\* The error of the checksum engine on the file, for valid names.
EngineError ==
    IF file.kind = "dir" THEN ErrIsDir
    ELSE IF file.kind = "missing" THEN ErrNotExist
    ELSE Nil

\* C14: when at least one flag is given and no given flag is invalid, a
\* call on a file that the checksum engine fails on returns the error of
\* the engine, a nil mismatch list and isIllegalUseError false; and no call
\* returns an error together with a mismatch list.
C14_EngineFailure ==
    Returned =>
        /\ (Specified # {} /\ BadFlags = {} /\ EngineError # Nil) =>
               (err = EngineError /\ mismatch = << >> /\ isIllegalUseError = FALSE)
        /\ err # Nil => mismatch = << >>

\* A call with two valid flags, one with a prefix and a suffix, has
\* returned on a directory.
C14_Witness ==
    /\ Returned /\ file.kind = "dir"
    /\ Cardinality(Specified) = 2 /\ BadFlags = {}
    /\ \E i \in Specified : ExpectedOf(i).prefix # << >> /\ ExpectedOf(i).suffix # << >>
    /\ err = ErrIsDir

(***************************************************************************)
(* Calls of hashcs.CalculateChecksum by any caller: any file, either       *)
(* value of upper and any short list of names, known or not.               *)
(***************************************************************************)
\* At most MaxNames names are requested in one call.
MaxNames == 3

\* The hash algorithms requested by name: MD4, MD5 and SHA-256.
EngineRanks == {1, 2, nameRankMap(<<"s","h","a","-","2","5","6">>)}

KnownNames == UNION { { Names[i][k] : k \in 1..Len(Names[i]) } : i \in EngineRanks }

\* "", "unknown", "SHA-256" and "Sha256" are not in Names.
UnknownNames ==
    { << >>,
      <<"u","n","k","n","o","w","n">>,
      <<"S","H","A","-","2","5","6">>,
      <<"S","h","a","2","5","6">> }

NameLists == UNION { [1..n -> KnownNames \cup UnknownNames] : n \in 0..MaxNames }

\* Two regular files whose digests differ from one hash algorithm to the
\* next, a directory and a missing file.
EngineFiles ==
    { FileOf("regular", [ r \in 1..NumHash |->
                            [ i \in 1..DigestSize |-> IF (r + p) % 2 = 0 THEN 10 ELSE 160 ] ]) :
        p \in {0, 1} }
    \cup { FileOf(k, [ r \in {1} |-> ZeroSum ]) : k \in FileKinds \ {"regular"} }

InitEngine ==
    /\ flags = [ i \in 1..NumHash |-> << >> ]
    /\ file \in EngineFiles
    /\ upper \in BOOLEAN
    /\ hashNames \in NameLists
    /\ pc = "call"
    /\ expected = << >>
    /\ checksums = << >>
    /\ mismatch = << >>
    /\ err = Nil
    /\ isIllegalUseError = FALSE
    /\ NoCommand

\* The call of hashcs.CalculateChecksum and its return.
CallCalculateChecksum ==
    /\ pc = "call"
    /\ \E r \in { CalculateChecksum(file, upper, hashNames) } :
           /\ checksums' = r.checksums
           /\ err' = r.err
    /\ pc' = "returned"
    /\ UNCHANGED << flags, file, expected, hashNames, mismatch, isIllegalUseError, upper, ioVars >>

NextEngine == CallCalculateChecksum

SpecEngine == InitEngine /\ [][NextEngine]_vars

\* hashcs.CalculateChecksum has returned.
EngineReturned == pc = "returned"

\* The ranks of the requested names; 0 is the rank of an unknown name.
RequestedRanks == { nameRankMap(hashNames[i]) : i \in 1..Len(hashNames) }

\* The permutations of 1..n, for each n up to MaxNames.
Perms ==
    [ n \in 0..MaxNames |->
        { q \in [1..n -> 1..n] : \A a, b \in 1..n : q[a] = q[b] => a = b } ]

\* C15: the returned checksums are in registry order, and requesting the
\* same names in any other order returns the same checksums.
C15_RegistryOrder ==
    EngineReturned =>
        /\ \A i \in 1..(Len(checksums) - 1) :
               RankOfName(checksums[i].HashName) < RankOfName(checksums[i + 1].HashName)
        /\ \A q \in Perms[Len(hashNames)] :
               CalculateChecksum(file, upper, [ i \in 1..Len(hashNames) |-> hashNames[q[i]] ]).checksums
                   = checksums

\* A call has returned three checksums for names requested in the reverse
\* of the registry order.
C15_Witness ==
    /\ EngineReturned
    /\ Len(checksums) = 3
    /\ \A i \in 1..(Len(hashNames) - 1) :
           nameRankMap(hashNames[i]) > nameRankMap(hashNames[i + 1])

\* C16: a successful call with at least one name returns one checksum for
\* each distinct hash algorithm requested, under whatever names and however
\* many times, and its HashName is the display name of the hash algorithm.
C16_Duplicates ==
    (EngineReturned /\ err = Nil /\ hashNames # << >>) =>
        /\ Len(checksums) = Cardinality(RequestedRanks)
        /\ \A r \in RequestedRanks :
               Cardinality({ i \in 1..Len(checksums) :
                               checksums[i].HashName = String(Hashes[r]) }) = 1

\* A call with one hash algorithm requested under three names has returned.
C16_Witness ==
    /\ EngineReturned /\ err = Nil
    /\ Len(hashNames) = 3
    /\ Cardinality({ hashNames[i] : i \in 1..3 }) = 3
    /\ Cardinality(RequestedRanks) = 1

\* The digest of the file for the hash algorithm of rank i, in the case
\* that upper asks for.
DigestInCase(i) ==
    [ j \in 1..Len(Digest(i)) |-> IF upper THEN UpperChar(Digest(i)[j]) ELSE Digest(i)[j] ]

\* C17: a call without names returns what the call with the one name
\* "sha-256" returns on the same file with the same upper: on a regular
\* file one checksum, named SHA-256, with the SHA-256 digest of the file.
C17_DefaultSHA256 ==
    (EngineReturned /\ hashNames = << >>) =>
        /\ [checksums |-> checksums, err |-> err]
               = CalculateChecksum(file, upper, << <<"s","h","a","-","2","5","6">> >>)
        /\ file.kind = "regular" =>
               /\ err = Nil
               /\ checksums = << [HashName |-> <<"S","H","A","-","2","5","6">>,
                                   Checksum |-> DigestInCase(RankOfName(<<"S","H","A","-","2","5","6">>))] >>

\* A call without names has returned a checksum in upper case.
C17_Witness ==
    /\ EngineReturned /\ hashNames = << >>
    /\ upper /\ Len(checksums) = 1

\* The names and aliases listed in Names.
Listed(name) == \E i \in 1..NumHash : \E k \in 1..Len(Names[i]) : Names[i][k] = name

\* The positions of the requested names that are not listed.
NotListed == { i \in 1..Len(hashNames) : ~Listed(hashNames[i]) }

\* C18: when a requested name is not listed, at whatever position and
\* along with whatever other names, the call fails with the unknown hash
\* algorithm error of the first such name and returns nil checksums.
C18_UnknownName ==
    (EngineReturned /\ NotListed # {}) =>
        /\ err.kind = "unknown hash algorithm"
        /\ \E i \in NotListed : err.hashName = hashNames[i] /\ \A j \in NotListed : i <= j
        /\ checksums = << >>

\* A call on a regular file has returned for two listed names followed by
\* a name that is listed only in lower case.
C18_Witness ==
    /\ EngineReturned /\ file.kind = "regular"
    /\ NotListed = {3}
    /\ Listed(ToLower(hashNames[3]))

\* C19: a call on a directory with listed names only fails with
\* filesys.ErrIsDir and returns nil checksums.
C19_Directory ==
    (EngineReturned /\ file.kind = "dir" /\ NotListed = {}) =>
        (err = ErrIsDir /\ checksums = << >>)

\* A call on a directory for three hash algorithms has returned.
C19_Witness ==
    /\ EngineReturned /\ file.kind = "dir"
    /\ NotListed = {} /\ Cardinality(RequestedRanks) = 3

\* The letters of a string in upper case / in lower case.
UpperLetters(x) == { j \in 1..Len(x) : Code(x[j]) >= Code("A") /\ Code(x[j]) <= Code("Z") }

LowerLetters(x) == { j \in 1..Len(x) : Code(x[j]) >= Code("a") /\ Code(x[j]) <= Code("z") }

\* x and y are equal when letter case is ignored.
EqualFold(x, y) == Len(x) = Len(y) /\ \A j \in 1..Len(x) : LowerChar(x[j]) = LowerChar(y[j])

\* C20: the call with the other value of upper returns as many checksums,
\* with the same HashName at each position and a digest that is equal when
\* letter case is ignored; a digest returned for upper = false has no
\* letter in upper case, and one returned for upper = true none in lower
\* case.
C20_UpperLower ==
    EngineReturned =>
        LET other == CalculateChecksum(file, ~upper, hashNames).checksums
        IN  /\ Len(other) = Len(checksums)
            /\ \A i \in 1..Len(checksums) :
                   /\ other[i].HashName = checksums[i].HashName
                   /\ EqualFold(other[i].Checksum, checksums[i].Checksum)
                   /\ IF upper THEN LowerLetters(checksums[i].Checksum) = {}
                               /\ UpperLetters(other[i].Checksum) = {}
                      ELSE UpperLetters(checksums[i].Checksum) = {}
                               /\ LowerLetters(other[i].Checksum) = {}

\* A call with upper = true has returned two checksums, each with a
\* letter.
C20_Witness ==
    /\ EngineReturned /\ upper
    /\ Len(checksums) >= 2
    /\ \A i \in 1..Len(checksums) : UpperLetters(checksums[i].Checksum) # {}

\* The places of Names: group i, item k.
NamePlaces == { ik \in (1..Len(Names)) \X (1..9) : ik[2] <= Len(Names[ik[1]]) }

\* The registry is consistent: Hashes has NumHash entries, each a hash
\* algorithm with a display name and none twice; Names has NumHash groups,
\* none empty, of names none of which is empty or listed twice; the first
\* name of a group is the display name of its hash algorithm in lower
\* case; and the rank maps give each hash algorithm and each name the rank
\* of its place.
RegistryConsistent ==
    /\ Len(Hashes) = NumHash /\ Len(Names) = NumHash
    /\ \A i \in 1..NumHash : Hashes[i] \in DOMAIN HashString
    /\ \A i, j \in 1..NumHash : Hashes[i] = Hashes[j] => i = j
    /\ \A i \in 1..NumHash : Len(Names[i]) >= 1 /\ Len(Names[i]) <= 9
    /\ \A ik \in NamePlaces : Names[ik[1]][ik[2]] # << >>
    /\ \A ik, jl \in NamePlaces : Names[ik[1]][ik[2]] = Names[jl[1]][jl[2]] => ik = jl
    /\ \A i \in 1..NumHash :
           /\ Len(Names[i][1]) = Len(String(Hashes[i]))
           /\ \A c \in 1..Len(Names[i][1]) : Names[i][1][c] = LowerChar(String(Hashes[i])[c])
    /\ \A i \in 1..NumHash : hashRankMap(Hashes[i]) = i
    /\ \A ik \in NamePlaces : nameRankMap(Names[ik[1]][ik[2]]) = ik[1]

\* C21: the registry is consistent, and a call returns for every listed
\* name it was given the checksum of the one hash algorithm whose group
\* lists the name.
C21_Registry ==
    /\ RegistryConsistent
    /\ (EngineReturned /\ err = Nil) =>
           \A n \in 1..Len(hashNames) :
               \E ik \in NamePlaces :
                   /\ Names[ik[1]][ik[2]] = hashNames[n]
                   /\ \E c \in 1..Len(checksums) :
                          checksums[c].HashName = String(Hashes[ik[1]])

\* A call has returned two checksums for names none of which is the first
\* of its group.
C21_Witness ==
    /\ EngineReturned /\ err = Nil
    /\ Len(checksums) = 2
    /\ \A n \in 1..Len(hashNames) :
           \E ik \in NamePlaces : ik[2] > 1 /\ Names[ik[1]][ik[2]] = hashNames[n]

(***************************************************************************)
(* printChecksum (package cmd): the checksums are calculated, the output   *)
(* is opened and the checksums are written.  The text written is a         *)
(* sequence of characters, "\n" being the line feed.                       *)
(***************************************************************************)
\* The error of local.WriteTrunc.
ErrWriteTrunc == [kind |-> "cannot open the output file"]

\* fmt.Fprintf(w, "%s: %s\n", HashName, Checksum) for each checksum.
RECURSIVE PlainText(_)
PlainText(cs) ==
    IF cs = << >> THEN << >>
    ELSE Head(cs).HashName \o <<":", " ">> \o Head(cs).Checksum \o <<"\n">>
         \o PlainText(Tail(cs))

Indent == <<" ", " ", " ", " ">>

\* One HashChecksum as a JSON object at the first level of indentation.
JSONObject(c) ==
    Indent \o <<"{", "\n">>
    \o Indent \o Indent \o <<"\"","h","a","s","h","N","a","m","e","\"",":"," ","\"">>
    \o c.HashName \o <<"\"", ",", "\n">>
    \o Indent \o Indent \o <<"\"","c","h","e","c","k","s","u","m","\"",":"," ","\"">>
    \o c.Checksum \o <<"\"", "\n">>
    \o Indent \o <<"}">>

RECURSIVE JSONObjects(_)
JSONObjects(cs) ==
    IF Len(cs) = 1 THEN JSONObject(cs[1])
    ELSE JSONObject(Head(cs)) \o <<",", "\n">> \o JSONObjects(Tail(cs))

\* json.Encoder.Encode with the indentation of four spaces: null for a nil
\* slice, and a line feed at the end.
JSONText(cs) ==
    IF cs = << >> THEN <<"n", "u", "l", "l", "\n">>
    ELSE <<"[", "\n">> \o JSONObjects(cs) \o <<"\n", "]", "\n">>

STDERR == <<"S","T","D","E","R","R">>

\* The names requested of printChecksum: names of MD5 and SHA-256 and a
\* name that is not listed.
PrintNames ==
    { <<"m","d","5">>, <<"m">>, <<"s","h","a","-","2","5","6">>, <<"s">>,
      <<"S","h","a","2","5","6">> }

PrintNameLists == UNION { [1..n -> PrintNames] : n \in 0..MaxNames }

\* The file that output names exists, with a line of text.
OldFile == [exists |-> TRUE, content |-> <<"o","l","d","\n">>, writable |-> TRUE]

\* The file that output names cannot be created.
NoWritableFile == [exists |-> FALSE, content |-> << >>, writable |-> FALSE]

\* The output and the file it names: the standard streams, a path to a
\* file that does not exist, that exists or that cannot be created, and the
\* path "stderr".
PrintTargets ==
    { << << >>, OldFile >>,
      << STDERR, OldFile >>,
      << <<"o","u","t">>, NoFile >>,
      << <<"o","u","t">>, OldFile >>,
      << <<"o","u","t">>, NoWritableFile >>,
      << <<"s","t","d","e","r","r">>, NoFile >> }

InitPrint ==
    /\ flags = [ i \in 1..NumHash |-> << >> ]
    /\ file \in EngineFiles
    /\ upper \in BOOLEAN
    /\ inJSON \in BOOLEAN
    /\ hashNames \in PrintNameLists
    /\ \E t \in PrintTargets : output = t[1] /\ outFile = t[2]
    /\ pc = "print"
    /\ expected = << >>
    /\ checksums = << >>
    /\ mismatch = << >>
    /\ err = Nil
    /\ isIllegalUseError = FALSE
    /\ silent = FALSE
    /\ args = 1
    /\ stdout = << >>
    /\ stderr = << >>
    /\ exitCode = -1

\* printChecksum that opens the output before it calculates the checksums.
PrintCalculateOpensFirst ==
    /\ pc = "print"
    /\ \E r \in { CalculateChecksum(file, upper, hashNames) } :
           /\ checksums' = r.checksums
           /\ err' = r.err
           /\ pc' = IF r.err # Nil THEN "printed" ELSE "write"
    /\ outFile' = IF output \notin {<< >>, STDERR} /\ outFile.writable
                  THEN [exists |-> TRUE, content |-> << >>, writable |-> TRUE]
                  ELSE outFile
    /\ UNCHANGED << flags, file, expected, hashNames, mismatch, isIllegalUseError, upper,
                    silent, args, stdout, stderr, exitCode, output, inJSON >>

\* printChecksum: the call of hashcs.CalculateChecksum.
PrintCalculate ==
    /\ pc = "print"
    /\ \E r \in { CalculateChecksum(file, upper, hashNames) } :
           /\ checksums' = r.checksums
           /\ err' = r.err
           /\ pc' = IF r.err # Nil THEN "printed" ELSE "open"
    /\ UNCHANGED << flags, file, expected, hashNames, mismatch, isIllegalUseError, upper,
                    ioVars >>

\* PrintOpen that opens the output file to append to it.
PrintOpenAppends ==
    /\ pc = "open"
    /\ IF output \in {<< >>, STDERR}
       THEN pc' = "write" /\ UNCHANGED << err, outFile >>
       ELSE IF ~outFile.writable
       THEN pc' = "printed" /\ err' = ErrWriteTrunc /\ UNCHANGED outFile
       ELSE /\ pc' = "write"
            /\ outFile' = [outFile EXCEPT !.exists = TRUE]
            /\ UNCHANGED err
    /\ UNCHANGED << flags, file, expected, hashNames, checksums, mismatch,
                    isIllegalUseError, upper,
                    silent, args, stdout, stderr, exitCode, output, inJSON >>

\* printChecksum: the choice of the writer; local.WriteTrunc creates the
\* output file or truncates it.
PrintOpen ==
    /\ pc = "open"
    /\ IF output \in {<< >>, STDERR}
       THEN pc' = "write" /\ UNCHANGED << err, outFile >>
       ELSE IF ~outFile.writable
       THEN pc' = "printed" /\ err' = ErrWriteTrunc /\ UNCHANGED outFile
       ELSE /\ pc' = "write"
            /\ outFile' = [exists |-> TRUE, content |-> << >>, writable |-> TRUE]
            /\ UNCHANGED err
    /\ UNCHANGED << flags, file, expected, hashNames, checksums, mismatch,
                    isIllegalUseError, upper,
                    silent, args, stdout, stderr, exitCode, output, inJSON >>

\* printChecksum: the checksums are written, in JSON or line by line, and
\* the output file is closed.
PrintWrite ==
    /\ pc = "write"
    /\ \E text \in { IF inJSON THEN JSONText(checksums) ELSE PlainText(checksums) } :
           /\ stdout' = IF output = << >> THEN stdout \o text ELSE stdout
           /\ stderr' = IF output = STDERR THEN stderr \o text ELSE stderr
           /\ outFile' = IF output \in {<< >>, STDERR} THEN outFile
                         ELSE [outFile EXCEPT !.content = outFile.content \o text]
    /\ err' = Nil
    /\ pc' = "printed"
    /\ UNCHANGED << flags, file, expected, hashNames, checksums, mismatch,
                    isIllegalUseError, upper, silent, args, exitCode, output, inJSON >>

NextPrint == PrintCalculate \/ PrintOpen \/ PrintWrite

SpecPrint == InitPrint /\ [][NextPrint]_vars

\* printChecksum has returned.
Printed == pc = "printed"

\* The ranks of the hash algorithms to print: those requested, or SHA-256
\* when no name is given; and the same in increasing order.
RanksToPrint ==
    IF hashNames = << >> THEN { RankOfName(<<"S","H","A","-","2","5","6">>) }
    ELSE RequestedRanks

RanksInOrder ==
    CHOOSE q \in [1..Cardinality(RanksToPrint) -> RanksToPrint] :
        \A a, b \in 1..Cardinality(RanksToPrint) : a < b => q[a] < q[b]

\* The lines "<HashName>: <digest>" of the hash algorithms of the ranks
\* q[i], q[i+1], ..., each ended by a line feed.
RECURSIVE LinesFrom(_, _)
LinesFrom(q, i) ==
    IF i > Len(q) THEN << >>
    ELSE String(Hashes[q[i]]) \o <<":", " ">> \o DigestInCase(q[i]) \o <<"\n">>
         \o LinesFrom(q, i + 1)

\* The text to print: in plain mode the lines, in JSON the encoding of the
\* same entries.
TextToPrint ==
    IF inJSON
    THEN JSONText([ i \in 1..Len(RanksInOrder) |->
                      [HashName |-> String(Hashes[RanksInOrder[i]]),
                       Checksum |-> DigestInCase(RanksInOrder[i])] ])
    ELSE LinesFrom(RanksInOrder, 1)

\* What has been written to the destination that output names.
Written ==
    IF output = << >> THEN stdout
    ELSE IF output = STDERR THEN stderr
    ELSE outFile.content

\* The output file is as it was before the call.
Untouched == outFile \in {NoFile, OldFile, NoWritableFile}

\* C22: a call on a regular file with listed names and an output that can
\* be opened returns no error, and a call that returns no error has written
\* to the destination that output names, and nowhere else, the text to
\* print: one entry for each distinct hash algorithm requested (SHA-256
\* when none is), in registry order, with the digest in the requested case;
\* the text is the same for every destination.
C22_Printed ==
    Printed =>
        /\ (file.kind = "regular" /\ NotListed = {}
              /\ (output \in {<< >>, STDERR} \/ outFile.writable)) => err = Nil
        /\ err = Nil =>
               /\ Written = TextToPrint
               /\ output # << >> => stdout = << >>
               /\ output # STDERR => stderr = << >>
               /\ output \in {<< >>, STDERR} => Untouched
               /\ output \notin {<< >>, STDERR} => outFile.exists

\* A call has written two lines in upper case to a file.
C22_Witness ==
    /\ Printed /\ err = Nil
    /\ output \notin {<< >>, STDERR}
    /\ upper /\ ~inJSON
    /\ Cardinality(RanksToPrint) = 2

\* The checksum engine fails on the call.
EngineFails == NotListed # {} \/ file.kind # "regular"

\* C30: when hashcs.CalculateChecksum fails, printChecksum returns its
\* error, the output file is as it was before the call (neither created nor
\* truncated) and nothing has been written to the standard streams.
C30_NothingOpened ==
    (Printed /\ EngineFails) =>
        /\ err = CalculateChecksum(file, upper, hashNames).err
        /\ err # Nil
        /\ Untouched
        /\ stdout = << >> /\ stderr = << >>

\* A call to print to an existing file has failed on a name that is not
\* listed.
C30_Witness ==
    /\ Printed /\ NotListed # {}
    /\ file.kind = "regular"
    /\ output \notin {<< >>, STDERR}
    /\ outFile = OldFile

(***************************************************************************)
(* The verify command: Run calls verifyChecksum on its argument and        *)
(* reports the result on the standard streams and by the exit code.        *)
(***************************************************************************)
ExitCodeError == 1

ExitCodePanic == 2

ExitCodeVerifyFail == 3

\* The help of the command, as cmd.Help writes it to the standard output.
HelpText == <<"U","s","a","g","e",":","\n">>

\* cobra.CheckErr on an error: "Error:", the message and a line feed on the
\* standard error stream; the message is named by the kind of the error.
ErrorText(e) == <<"E","r","r","o","r",":"," ">> \o << e.kind >> \o <<"\n">>

\* What the Go runtime writes for a panic that is not recovered.
PanicText == <<"p","a","n","i","c",":","\n">>

\* A run of the command with at most MaxSpecified flags, of rank at most
\* MaxRank, each with one of the few expressions; with or without the flag
\* "silent" and the file argument.
InitRun ==
    \E given \in { c \in SUBSET (1..MaxRank) : Cardinality(c) <= MaxSpecified } :
    \E e \in [given -> FewExprs], k \in FileKinds :
    \E s \in SumsOf(k, given) :
        /\ flags = [ i \in 1..NumHash |-> IF i \in given THEN e[i] ELSE << >> ]
        /\ file = FileOf(k, s)
        /\ pc = "run"
        /\ silent \in BOOLEAN
        /\ args \in {0, 1}
        /\ expected = << >>
        /\ hashNames = << >>
        /\ checksums = << >>
        /\ mismatch = << >>
        /\ err = Nil
        /\ isIllegalUseError = FALSE
        /\ upper = FALSE
        /\ stdout = << >>
        /\ stderr = << >>
        /\ exitCode = -1
        /\ output = << >>
        /\ inJSON = FALSE
        /\ outFile = NoFile

\* Run up to the call of verifyChecksum: without an argument the help is
\* displayed and Run returns.
RunStart ==
    /\ pc = "run"
    /\ IF args = 0
       THEN /\ stdout' = stdout \o HelpText
            /\ exitCode' = 0
            /\ pc' = "exited"
       ELSE /\ pc' = "parse"
            /\ UNCHANGED << stdout, exitCode >>
    /\ UNCHANGED << flags, file, expected, hashNames, checksums, mismatch, err,
                    isIllegalUseError, upper, silent, args, stderr, output, inJSON, outFile >>

\* A panic is raised while verifyChecksum runs.
Panic ==
    /\ pc \in {"parse", "calculate", "compare"}
    /\ pc' = "panic"
    /\ UNCHANGED << flags, file, expected, hashNames, checksums, mismatch, err,
                    isIllegalUseError, upper, ioVars >>

\* The end of a panic: in silent mode the deferred function of Run recovers
\* it and exits with ExitCodePanic; otherwise the Go runtime reports it and
\* exits with code 2.
RunRecover ==
    /\ pc = "panic"
    /\ stderr' = IF silent THEN stderr ELSE stderr \o PanicText
    /\ exitCode' = IF silent THEN ExitCodePanic ELSE 2
    /\ pc' = "panicked"
    /\ UNCHANGED << flags, file, expected, hashNames, checksums, mismatch, err,
                    isIllegalUseError, upper, silent, args, stdout, output, inJSON, outFile >>

\* fmt.Printf("%s: %s\n", HashName, Checksum) for each mismatch.
RECURSIVE MismatchText(_)
MismatchText(ms) ==
    IF ms = << >> THEN << >>
    ELSE Head(ms).HashName \o <<":", " ">> \o Head(ms).Checksum \o <<"\n">>
         \o MismatchText(Tail(ms))

\* RunReport that never reports an error in silent mode.
RunReportAllSilent ==
    /\ pc = "done"
    /\ IF err # Nil
       THEN IF silent
            THEN exitCode' = ExitCodeError /\ UNCHANGED << stdout, stderr >>
            ELSE /\ stderr' = stderr \o ErrorText(err)
                 /\ exitCode' = 1
                 /\ UNCHANGED stdout
       ELSE IF silent
       THEN /\ exitCode' = IF Len(mismatch) > 0 THEN ExitCodeVerifyFail ELSE 0
            /\ UNCHANGED << stdout, stderr >>
       ELSE IF Len(mismatch) = 0
       THEN /\ stdout' = stdout \o <<"O", "K", "\n">>
            /\ exitCode' = 0
            /\ UNCHANGED stderr
       ELSE /\ stdout' = stdout \o <<"F", "A", "I", "L", "\n">> \o MismatchText(mismatch)
            /\ exitCode' = ExitCodeVerifyFail
            /\ UNCHANGED stderr
    /\ pc' = "exited"
    /\ UNCHANGED << flags, file, expected, hashNames, checksums, mismatch, err,
                    isIllegalUseError, upper, silent, args, output, inJSON, outFile >>

\* RunReport that exits with ExitCodeError after a verification failure.
RunReportFailIsError ==
    /\ pc = "done"
    /\ IF err # Nil
       THEN IF silent /\ ~isIllegalUseError
            THEN exitCode' = ExitCodeError /\ UNCHANGED << stdout, stderr >>
            ELSE /\ stderr' = stderr \o ErrorText(err)
                 /\ exitCode' = 1
                 /\ UNCHANGED stdout
       ELSE IF silent
       THEN /\ exitCode' = IF Len(mismatch) > 0 THEN ExitCodeVerifyFail ELSE 0
            /\ UNCHANGED << stdout, stderr >>
       ELSE IF Len(mismatch) = 0
       THEN /\ stdout' = stdout \o <<"O", "K", "\n">>
            /\ exitCode' = 0
            /\ UNCHANGED stderr
       ELSE /\ stdout' = stdout \o <<"F", "A", "I", "L", "\n">> \o MismatchText(mismatch)
            /\ exitCode' = ExitCodeError
            /\ UNCHANGED stderr
    /\ pc' = "exited"
    /\ UNCHANGED << flags, file, expected, hashNames, checksums, mismatch, err,
                    isIllegalUseError, upper, silent, args, output, inJSON, outFile >>

\* Run after the return of verifyChecksum: the error, or the result, is
\* reported and the process exits (with code 0 when Run returns).
RunReport ==
    /\ pc = "done"
    /\ IF err # Nil
       THEN IF silent /\ ~isIllegalUseError
            THEN exitCode' = ExitCodeError /\ UNCHANGED << stdout, stderr >>
            ELSE /\ stderr' = stderr \o ErrorText(err)
                 /\ exitCode' = 1
                 /\ UNCHANGED stdout
       ELSE IF silent
       THEN /\ exitCode' = IF Len(mismatch) > 0 THEN ExitCodeVerifyFail ELSE 0
            /\ UNCHANGED << stdout, stderr >>
       ELSE IF Len(mismatch) = 0
       THEN /\ stdout' = stdout \o <<"O", "K", "\n">>
            /\ exitCode' = 0
            /\ UNCHANGED stderr
       ELSE /\ stdout' = stdout \o <<"F", "A", "I", "L", "\n">> \o MismatchText(mismatch)
            /\ exitCode' = ExitCodeVerifyFail
            /\ UNCHANGED stderr
    /\ pc' = "exited"
    /\ UNCHANGED << flags, file, expected, hashNames, checksums, mismatch, err,
                    isIllegalUseError, upper, silent, args, output, inJSON, outFile >>

NextRun == RunStart \/ ParseFlags \/ Calculate \/ Compare \/ Panic \/ RunRecover \/ RunReport

SpecRun == InitRun /\ [][NextRun]_vars

(***************************************************************************)
(* Properties of the verify command.                                       *)
(***************************************************************************)
\* Run has reached its end: after the help, or after its report.
Exited == pc = "exited"

\* Run has reported on a return of verifyChecksum.
Reported1 == Exited /\ args = 1

NoOutput == stdout = << >> /\ stderr = << >>

\* The lines "<HashName>: <digest>" of the mismatches from the j-th on.
RECURSIVE FailLines(_)
FailLines(j) ==
    IF j > Len(mismatch) THEN << >>
    ELSE mismatch[j].HashName \o <<":", " ">> \o mismatch[j].Checksum \o <<"\n">>
         \o FailLines(j + 1)

\* C23: run non-silently with a file argument and no error, the verify
\* command prints "OK" and exits with code 0 exactly when the mismatch list
\* is empty, and otherwise prints "FAIL" and one line "<HashName>: <digest>"
\* per mismatch, in the order of the list, and exits with code 3; an error
\* never gives exit code 3 and a verification failure never exit code 1.
C23_Report ==
    /\ (Reported1 /\ ~silent /\ err = Nil) =>
          /\ stderr = << >>
          /\ mismatch = << >> <=> (stdout = <<"O", "K", "\n">> /\ exitCode = 0)
          /\ mismatch # << >> =>
                /\ stdout = <<"F", "A", "I", "L", "\n">> \o FailLines(1)
                /\ exitCode = 3
    /\ (Reported1 /\ err # Nil) => exitCode # 3
    /\ (Reported1 /\ err = Nil /\ mismatch # << >>) => exitCode # 1

C23_Witness ==
    /\ Reported1 /\ ~silent /\ err = Nil
    /\ Len(mismatch) = 2
    /\ exitCode = 3
    /\ Len(stdout) > 5

C23_WitnessOK ==
    /\ Reported1 /\ ~silent /\ err = Nil
    /\ stdout = <<"O", "K", "\n">>
    /\ Cardinality(Specified) = 2

\* C24: in silent mode the verify command writes nothing for a result of
\* the verification, a system error or a panic, and exits with code 1 after
\* an error that is no illegal use, 3 after a non-empty mismatch list, 2
\* after a panic and 0 after a success; an illegal-use error is still
\* displayed, and so is the help when the file argument is missing.
C24_Silent ==
    silent =>
        /\ (Reported1 /\ err # Nil /\ ~isIllegalUseError) => (NoOutput /\ exitCode = 1)
        /\ (Reported1 /\ err = Nil /\ mismatch # << >>) => (NoOutput /\ exitCode = 3)
        /\ (Reported1 /\ err = Nil /\ mismatch = << >>) => (NoOutput /\ exitCode = 0)
        /\ pc = "panicked" => (NoOutput /\ exitCode = 2)
        /\ (Reported1 /\ isIllegalUseError) =>
              (stderr = ErrorText(err) /\ stdout = << >> /\ exitCode = 1)
        /\ (Exited /\ args = 0) => (stdout = HelpText /\ stderr = << >>)

C24_Witness ==
    /\ silent /\ Reported1
    /\ err = ErrIsDir
    /\ exitCode = 1
    /\ NoOutput

C24_WitnessIllegalUse ==
    /\ silent /\ Reported1
    /\ isIllegalUseError
    /\ stderr # << >>

C24_WitnessPanic == silent /\ pc = "panicked" /\ exitCode = 2

C24_WitnessFail == silent /\ Reported1 /\ Len(mismatch) = 2 /\ exitCode = 3

C24_WitnessHelp == silent /\ Exited /\ args = 0 /\ stdout # << >>

(***************************************************************************)
(* Properties of verifyChecksum as a whole.                                *)
(***************************************************************************)
\* One file of every kind.
FilesOfEveryKind == { FileOf(k, << >>) : k \in FileKinds }

UsageError == err.kind = "invalid hex" \/ err = NotSpecifiedError

\* C25: the flags are validated before the file is accessed: when a given
\* expression is invalid, or none is given, hashcs.CalculateChecksum is
\* never called and verifyChecksum returns the usage error, the same one
\* for a regular file, a directory and a path that does not exist.
C25_ValidationFirst ==
    /\ pc \in {"calculate", "compare"} => (BadFlags = {} /\ Specified # {})
    /\ (Returned /\ (BadFlags # {} \/ Specified = {})) =>
          /\ UsageError
          /\ isIllegalUseError
          /\ checksums = << >>
          /\ hashNames = << >>
          /\ \A f \in FilesOfEveryKind :
                /\ verifyChecksum(f, flags).err = err
                /\ verifyChecksum(f, flags).isIllegalUseError

C25_Witness ==
    /\ Returned
    /\ Cardinality(Specified) = 2
    /\ Cardinality(BadFlags) = 1
    /\ file.kind = "dir"
    /\ isIllegalUseError

C25_WitnessNoFlag == Returned /\ Specified = {} /\ file.kind = "missing" /\ isIllegalUseError

\* The expressions whose prefix is longer than the digest computed for it.
LongPrefixes ==
    { k \in 1..Len(expected) :
        k <= Len(checksums) /\ Len(expected[k].prefix) > Len(checksums[k].Checksum) }

\* C26: a valid prefix longer than the computed digest never makes
\* verifyChecksum slice out of range or panic: the test of the prefix fails
\* first, and the hash algorithm is reported as a mismatch.
C26_LongPrefix ==
    /\ pc # "panic"
    /\ ReturnedOK =>
          \A k \in LongPrefixes :
              \E m \in 1..Len(mismatch) : mismatch[m] = checksums[k]

C26_Witness ==
    /\ ReturnedOK
    /\ LongPrefixes # {}
    /\ \A k \in LongPrefixes : StartsWith(expected[k].prefix, checksums[k].Checksum)
    /\ mismatch # << >>

\* The expressions of the calls with flags for any hash algorithms.
AllExprs == { Marker, <<"0">> \o Marker \o <<"a">> }

\* A call with the flags of one or two of the NumHash hash algorithms, on a
\* file of any kind.
InitAll ==
    \E given \in { c \in SUBSET (1..NumHash) : Cardinality(c) \in {1, 2} } :
    \E e \in [given -> AllExprs], k \in FileKinds :
        Start([ i \in 1..NumHash |-> IF i \in given THEN e[i] ELSE << >> ], FileOf(k, << >>))

SpecAll == InitAll /\ [][Next]_vars

InternalErrorKinds == { CountError(0, 0).kind, HashNameError(0, << >>, << >>).kind }

\* C27: the consistency errors of verifyChecksum are never returned: when
\* hashcs.CalculateChecksum succeeds inside verifyChecksum it returns one
\* checksum for each parsed expression, the i-th one named as the i-th
\* expression, whatever the flags.
C27_Consistent ==
    /\ err.kind \notin InternalErrorKinds
    /\ pc = "compare" =>
          /\ Len(checksums) = Len(expected)
          /\ Len(expected) = Cardinality(Specified)
          /\ \A k \in 1..Len(expected) : checksums[k].HashName = expected[k].hashName

C27_Witness ==
    /\ ReturnedOK
    /\ Specified = {NumHash - 1, NumHash}
    /\ Len(expected) = 2
    /\ Len(checksums) = 2
    /\ \A k \in 1..2 : checksums[k].HashName = expected[k].hashName

\* C28: the shape of what verifyChecksum returns, for every input:
\* isIllegalUseError implies an error, an error implies an empty mismatch
\* list, and the digest of every mismatch is in lower case (the engine is
\* called with upper = false).
C28_ResultShape ==
    Returned =>
        /\ isIllegalUseError => err # Nil
        /\ err # Nil => mismatch = << >>
        /\ \A m \in 1..Len(mismatch) :
              /\ mismatch[m].Checksum # << >>
              /\ \A j \in 1..Len(mismatch[m].Checksum) :
                    mismatch[m].Checksum[j] \in LowerHexChars

C28_Witness ==
    /\ ReturnedOK
    /\ Len(mismatch) = 2
    /\ \A m \in 1..2 : \E j \in 1..Len(mismatch[m].Checksum) : mismatch[m].Checksum[j] = "a"

C28_WitnessError == Returned /\ isIllegalUseError /\ err # Nil /\ Cardinality(Specified) = 2

\* The given flags without the marker that normalise to an empty prefix.
BlankFlags ==
    { i \in Specified :
        FirstMarker(flags[i]) = -1 /\ Normal(TextBefore(flags[i])) = << >> }

\* The flags with the marker alone in place of the blank ones.
MarkerForBlank == [ i \in 1..NumHash |-> IF i \in BlankFlags THEN Marker ELSE flags[i] ]

\* C29: a flag that is not empty but normalises to an empty prefix and an
\* empty suffix without the marker (white space only, or only "0x") is a
\* specified expression: no "hash checksum not specified", the hash
\* algorithm is computed, and every digest matches, as with "...".
C29_BlankIsSpecified ==
    BlankFlags # {} =>
        /\ err # NotSpecifiedError
        /\ pc \in {"calculate", "compare", "done"} =>
              \A i \in BlankFlags :
                  \E k \in 1..Len(expected) :
                      /\ expected[k] = [hashName |-> String(Hashes[i]),
                                        prefix |-> << >>, suffix |-> << >>]
                      /\ hashNames[k] = ToLower(String(Hashes[i]))
        /\ (Returned /\ err = Nil) =>
              \A i \in BlankFlags :
                  /\ \E c \in 1..Len(checksums) :
                        checksums[c] = [HashName |-> String(Hashes[i]), Checksum |-> Digest(i)]
                  /\ ~Reported(i)
        /\ (Returned /\ Specified = BlankFlags) => err = EngineError
        /\ Returned => SameOutcome(MarkerForBlank)

C29_Witness ==
    /\ ReturnedOK
    /\ \E i \in BlankFlags : flags[i] = <<"0", "X">>
    /\ file.kind = "regular"
    /\ Len(checksums) = 1
    /\ mismatch = << >>

C29_WitnessSpaces ==
    /\ ReturnedOK
    /\ \E i \in BlankFlags : flags[i] = <<" ", " ">>
    /\ Len(checksums) = 1
    /\ mismatch = << >>

====
